---- MODULE Spec2Model ----
(***************************************************************************)
(* A model of the declarative API binding helper of the frontend           *)
(* (frontend/src/common/api.base.js): makeApiModule, bindApis,             *)
(* bindModuleMethod, mapParamsToPathVariables, resolveConfig,              *)
(* resolveHeaders and cleanupHeaders.                                      *)
(*                                                                         *)
(* Representation of JavaScript values                                     *)
(*   string (urls)   a sequence of one-character strings                   *)
(*   undefined url   the one-element sequence UndefinedStr                 *)
(*   method          a TLA+ string, UndefinedMethod for undefined          *)
(*   plain object    a function from its own keys to their values          *)
(*   argument        [kind, num, obj]: undefined, a number or an object    *)
(*   header value    [tag, s, m]: a scalar string s or a sub-map m         *)
(*   pending result  [name, sent, t, p, pv]: the promise a call returns and *)
(*                   the request of the transport it waits for             *)
(*   memory          a sequence of objects; a property of an object of the  *)
(*                   memory holds a primitive or an address (SpecHeap)     *)
(*                                                                         *)
(* and of the router guard of the admin page                               *)
(* (frontend/src/pages/iview-admin/router/index.js) and the page entries   *)
(* and build-config lookup of webpack.config.js.                           *)
(***************************************************************************)
EXTENDS FiniteSets, Integers, Sequences, TLC

VARIABLES
    authored,   \* the definition table as the caller wrote it (ghost)
    apiDefs,    \* the definition table object shared by caller and classes
    made,       \* makeApiModule has been called on the table
    inst,       \* the instances: status, defaultConfig, closure url per name
    last,       \* what the last operation did (outcome, request handed over)
    flight,     \* the pending results of the calls, in the order of the calls
    guard,      \* the router guard: cookie, local storage, clock, navigations
    build,      \* what the last application of a build-config function gave
    heap        \* the objects of an instance and of its callers, by address

vars == <<authored, apiDefs, made, inst, last, flight, guard, build, heap>>

(***************************************************************************)
(* Bounds of the model                                                     *)
(***************************************************************************)
MaxInstances == 1
MaxId == 8
\* the number of calls a behaviour makes (each returns a pending result)
MaxFlight == 2

Instances == 1..MaxInstances
Ids == 7..MaxId

(***************************************************************************)
(* Strings                                                                 *)
(***************************************************************************)
EmptyMap == [k \in {} |-> 0]

UndefinedStr == <<"undefined">>
UndefinedMethod == "<undefined>"

\* the characters of the literal text `undefined`
UndefinedText == <<"u","n","d","e","f","i","n","e","d">>

\* the regular expression class \w (with the i flag)
WordChars ==
    {"a","b","c","d","e","f","g","h","i","j","k","l","m",
     "n","o","p","q","r","s","t","u","v","w","x","y","z",
     "A","B","C","D","E","F","G","H","I","J","K","L","M",
     "N","O","P","Q","R","S","T","U","V","W","X","Y","Z",
     "0","1","2","3","4","5","6","7","8","9","_"}

DigitChar == <<"0","1","2","3","4","5","6","7","8","9">>

\* String(n) for a non-negative integer n
RECURSIVE NumToStr(_)
NumToStr(n) ==
    IF n < 10 THEN <<DigitChar[n + 1]>>
    ELSE NumToStr(n \div 10) \o <<DigitChar[(n % 10) + 1]>>

\* the property names used by the model, with their characters, in the
\* order Array.prototype.sort gives them
KeyChars ==
    [id |-> <<"i","d">>, name |-> <<"n","a","m","e">>, x |-> <<"x">>,
     timeout |-> <<"t","i","m","e","o","u","t">>]
KeyOrder == <<"id", "name", "timeout", "x">>

\* `${value}` of a url that may be undefined
TemplateStr(u) == IF u = UndefinedStr THEN UndefinedText ELSE u

\* s.indexOf(pat) >= 0
Contains(s, pat) ==
    \E i \in 1..(Len(s) - Len(pat) + 1) : SubSeq(s, i, i + Len(pat) - 1) = pat

(***************************************************************************)
(* Objects                                                                 *)
(***************************************************************************)
\* { ...a, ...b }
Merge(a, b) ==
    [k \in DOMAIN a \cup DOMAIN b |-> IF k \in DOMAIN b THEN b[k] ELSE a[k]]

Undef == [kind |-> "undefined", num |-> 0, obj |-> EmptyMap]
Num(n) == [kind |-> "number", num |-> n, obj |-> EmptyMap]
Obj(o) == [kind |-> "object", num |-> 0, obj |-> o]

isEmptyObject(obj) == DOMAIN obj = {}

isObject(v) == v.kind = "object"

\* the truth value JavaScript gives an argument
Truthy(v) == v.kind = "object" \/ (v.kind = "number" /\ v.num # 0)

\* what spreading / property access sees of a config argument
ConfigOf(v) == IF v.kind = "object" THEN v.obj ELSE EmptyMap

\* params[key] rendered into the url: String(params[key])
ParamText(params, key) ==
    IF \E k \in DOMAIN params : k \in DOMAIN KeyChars /\ KeyChars[k] = key
    THEN NumToStr(params[CHOOSE k \in DOMAIN params :
                            k \in DOMAIN KeyChars /\ KeyChars[k] = key])
    ELSE UndefinedText

\* qs.stringify(args): `key=value` pairs of the object's own keys in sorted
\* order, joined by `&`; the empty string for a value without keys
RECURSIVE StringifyFrom(_, _, _)
StringifyFrom(o, i, first) ==
    IF i > Len(KeyOrder) THEN <<>>
    ELSE IF KeyOrder[i] \in DOMAIN o
         THEN (IF first THEN <<>> ELSE <<"&">>)
              \o KeyChars[KeyOrder[i]] \o <<"=">> \o NumToStr(o[KeyOrder[i]])
              \o StringifyFrom(o, i + 1, FALSE)
         ELSE StringifyFrom(o, i + 1, first)

qsStringify(v) == IF v.kind = "object" THEN StringifyFrom(v.obj, 1, TRUE) ELSE <<>>

(***************************************************************************)
(* Headers and config: cleanupHeaders, resolveHeaders, resolveConfig       *)
(***************************************************************************)
\* a header value: a scalar (the empty string stands for the falsy scalars)
\* or a sub-map of scalars
SV(s) == [tag |-> "scalar", s |-> s, m |-> EmptyMap]
MV(m) == [tag |-> "map", s |-> "", m |-> m]

HTruthy(v) == v.tag = "map" \/ v.s # ""

\* the own enumerable properties an object spread copies from a value
\* (the header maps of the model hold, under a bookkeeping key, a sub-map
\* or the empty string only: a non-empty string is never spread)
OwnProps(v) == IF v.tag = "map" THEN v.m ELSE EmptyMap

BookKeys == {"common", "get", "post", "put", "delete", "patch", "options", "head"}

LegalMethods == {"get", "post", "put", "delete", "patch", "options", "head"}

LowerOf ==
    [GET |-> "get", POST |-> "post", PUT |-> "put", DELETE |-> "delete",
     Put |-> "put", Get |-> "get", BOGUS |-> "bogus"]

\* mutant of toLowerCase: the method is used as it is spelled
toLowerCase_asSpelled(m) == m

toLowerCase(m) == IF m \in DOMAIN LowerOf THEN LowerOf[m] ELSE m

\* mutant of isLegalMethod: the test of line 25 accepts any word
isLegalMethod_anyWord(method) == TRUE

isLegalMethod(method) == toLowerCase(method) \in LegalMethods

\* mutant of cleanupHeaders: `common` is missing from the list of props
cleanupHeaders_keepCommon(headers) ==
    [k \in {h \in DOMAIN headers :
               ~(h \in BookKeys \ {"common"} /\ HTruthy(headers[h]))}
        |-> headers[k]]

\* headers[prop] && delete headers[prop], for each bookkeeping prop
cleanupHeaders(headers) ==
    [k \in {h \in DOMAIN headers : ~(h \in BookKeys /\ HTruthy(headers[h]))}
        |-> headers[k]]

\* defaults[key] || {}
SubMapOrEmpty(defaults, key) ==
    IF key \in DOMAIN defaults /\ HTruthy(defaults[key])
    THEN OwnProps(defaults[key])
    ELSE EmptyMap

\* mutant of resolveHeaders: the common sub-map is spread after the
\* method's sub-map
resolveHeaders_commonLast(method, defaults, extras) ==
    LET m == toLowerCase(method)
        commonHeaders == SubMapOrEmpty(defaults, "common")
        headersForMethod == SubMapOrEmpty(defaults, m)
    IN  cleanupHeaders(
            Merge(Merge(Merge(defaults, headersForMethod), commonHeaders), extras))

\* the value resolveHeaders returns for a legal method
resolveHeaders(method, defaults, extras) ==
    LET m == toLowerCase(method)
        commonHeaders == SubMapOrEmpty(defaults, "common")
        headersForMethod == SubMapOrEmpty(defaults, m)
    IN  cleanupHeaders(
            Merge(Merge(Merge(defaults, commonHeaders), headersForMethod), extras))

\* resolveHeaders throws the illegal-method error exactly in this case
resolveHeadersThrows(method) == ~isLegalMethod(method)

\* obj.headers, with the default parameter value {} for undefined
HeadersOf(obj) == IF "headers" \in DOMAIN obj THEN obj.headers ELSE EmptyMap

\* mutant of resolveConfig: without the early return for empty configs
resolveConfig_noEarlyReturn(method, defaults, extras) ==
    Merge(Merge(defaults, extras),
          [headers |-> resolveHeaders(method, HeadersOf(defaults),
                                      HeadersOf(extras))])

\* mutant of resolveConfigThrows: the method is checked only when one of the
\* configs carries headers
resolveConfigThrows_headersOnly(method, defaults, extras) ==
    /\ "headers" \in DOMAIN defaults \cup DOMAIN extras
    /\ ~isLegalMethod(method)

\* resolveConfig throws (from resolveHeaders) exactly in this case
resolveConfigThrows(method, defaults, extras) ==
    /\ ~(isEmptyObject(defaults) /\ isEmptyObject(extras))
    /\ ~isLegalMethod(method)

\* the value resolveConfig returns when it does not throw
resolveConfig(method, defaults, extras) ==
    IF isEmptyObject(defaults) /\ isEmptyObject(extras)
    THEN EmptyMap
    ELSE Merge(Merge(defaults, extras),
               [headers |-> resolveHeaders(method, HeadersOf(defaults),
                                           HeadersOf(extras))])

\* defaultOptions.headers of api.config.js
DefaultOptionsHeaders == [k \in {"Content-Type"} |-> SV("application/json")]

\* defaultOptions of api.config.js: the headers and, of the other options,
\* the cookie name of the CSRF token
DefaultOptions ==
    [headers |-> DefaultOptionsHeaders, xsrfCookieName |-> "csrftoken"]

\* this.defaultConfig as the BaseApiModule constructor builds it
makeDefaultConfig(options) ==
    [headers |-> Merge(DefaultOptionsHeaders, HeadersOf(options))]

(***************************************************************************)
(* Definitions: makeApiModule's normalisation and bindApis' validation     *)
(***************************************************************************)
StrDef(u) == [shape |-> "string", str |-> u, arr |-> <<>>, obj |-> EmptyMap]
PairDef(a) == [shape |-> "array", str |-> <<>>, arr |-> a, obj |-> EmptyMap]
ObjDef(o) == [shape |-> "object", str |-> <<>>, arr |-> <<>>, obj |-> o]
NullDef == [shape |-> "null", str |-> <<>>, arr |-> <<>>, obj |-> EmptyMap]

\* mutant of normalizeDef: a bare string gets the method POST
normalizeDef_stringPost(def) ==
    IF def.shape = "string"
    THEN ObjDef([method |-> "POST", url |-> def.str])
    ELSE IF def.shape = "array"
    THEN ObjDef([method |-> IF Len(def.arr) >= 1 THEN def.arr[1] ELSE UndefinedMethod,
                 url |-> IF Len(def.arr) >= 2 THEN def.arr[2] ELSE UndefinedStr])
    ELSE def

\* the loop body of makeApiModule: what apiDefs[name] holds afterwards
normalizeDef(def) ==
    IF def.shape = "string"
    THEN ObjDef([method |-> "GET", url |-> def.str])
    ELSE IF def.shape = "array"
    THEN ObjDef([method |-> IF Len(def.arr) >= 1 THEN def.arr[1] ELSE UndefinedMethod,
                 url |-> IF Len(def.arr) >= 2 THEN def.arr[2] ELSE UndefinedStr])
    ELSE def

\* mutant of normalizeTable: the entries of the table are left as written
normalizeTable_untouched(defs) == defs

\* what the table holds after the loop of makeApiModule
normalizeTable(defs) == [n \in DOMAIN defs |-> normalizeDef(defs[n])]

\* mutant of invalidDef: only the `!def` half of the test
invalidDef_falsyOnly(def) ==
    CASE def.shape = "null" -> TRUE
      [] def.shape = "string" -> Len(def.str) = 0
      [] OTHER -> FALSE

\* !def || Object.keys(def).length === 0
invalidDef(def) ==
    CASE def.shape = "null" -> TRUE
      [] def.shape = "string" -> Len(def.str) = 0
      [] def.shape = "array" -> Len(def.arr) = 0
      [] OTHER -> DOMAIN def.obj = {}

\* def.url and def.method as bindApis reads them
defUrl(def) ==
    IF def.shape = "object" /\ "url" \in DOMAIN def.obj THEN def.obj.url
    ELSE UndefinedStr

defMethod(def) ==
    IF def.shape = "object" /\ "method" \in DOMAIN def.obj THEN def.obj.method
    ELSE UndefinedMethod

(***************************************************************************)
(* Path parameters: mapParamsToPathVariables                               *)
(***************************************************************************)
\* the last index of the run of \w characters that starts at i
RECURSIVE RunEnd(_, _)
RunEnd(s, i) ==
    IF i + 1 <= Len(s) /\ s[i + 1] \in WordChars THEN RunEnd(s, i + 1) ELSE i

\* url.replace(/:(\w+)/ig, (_, key) => params[key]) from index i on
RECURSIVE ReplaceFrom(_, _, _)
ReplaceFrom(s, i, params) ==
    IF i > Len(s) THEN <<>>
    ELSE IF s[i] = ":" /\ i + 1 <= Len(s) /\ s[i + 1] \in WordChars
         THEN LET j == RunEnd(s, i + 1)
              IN  ParamText(params, SubSeq(s, i + 1, j))
                  \o ReplaceFrom(s, j + 1, params)
         ELSE <<s[i]>> \o ReplaceFrom(s, i + 1, params)

mapParamsToPathVariables(url, params) == ReplaceFrom(url, 1, params)

(***************************************************************************)
(* The bound method: the closure bindApis installs around the function     *)
(* bindModuleMethod returns.  closure is [url, method], the two variables   *)
(* the closures capture; defaults is moduleInstance.defaultConfig.          *)
(***************************************************************************)
NoRequest == EmptyMap

Arg(args, k) == IF Len(args) >= k THEN args[k] ELSE Undef

\* bindApis' inner function takes the path-parameter branch
takesParams(url, args) ==
    Len(args) > 0 /\ Contains(url, <<"/", ":">>) /\ isObject(args[1])

\* the closure's url after the call of bindApis' inner function
urlAfter(url, args) ==
    IF takesParams(url, args)
    THEN mapParamsToPathVariables(url, args[1].obj)
    ELSE url

\* the arguments bindApis' inner function passes on after the url
argsAfter(url, args) == IF takesParams(url, args) THEN Tail(args) ELSE args

\* the config bindModuleMethod's function hands to $http.request
requestConfig(url, method, defaults, payload, config) ==
    LET base == Merge([url |-> url, method |-> method],
                      resolveConfig(method, defaults, ConfigOf(config)))
        shouldSendData == method = "post" \/ method = "put"
    IN  IF ~Truthy(payload) THEN base
        ELSE IF shouldSendData THEN Merge(base, [data |-> payload])
        ELSE Merge(base, [url |-> TemplateStr(base.url) \o <<"?">>
                                  \o qsStringify(payload)])

\* one call of a bound method: the outcome, the request handed to the
\* transport and the closure's variables afterwards
boundCall(closure, defaults, args) ==
    IF Len(args) > 0 /\ closure.url = UndefinedStr
    THEN \* url.indexOf on undefined
         [outcome |-> "throw", error |-> "TypeError", req |-> NoRequest,
          closure |-> closure]
    ELSE LET url == urlAfter(closure.url, args)
             rest == argsAfter(closure.url, args)
         IN  IF closure.method = UndefinedMethod
             THEN \* method.toLowerCase on undefined
                  [outcome |-> "throw", error |-> "TypeError", req |-> NoRequest,
                   closure |-> [url |-> url, method |-> closure.method]]
             ELSE LET method == toLowerCase(closure.method)
                      after == [url |-> url, method |-> method]
                  IN  IF resolveConfigThrows(method, defaults, ConfigOf(Arg(rest, 2)))
                      THEN \* thrown inside the promise executor
                           [outcome |-> "reject", error |-> "IllegalMethod",
                            req |-> NoRequest, closure |-> after]
                      ELSE [outcome |-> "request", error |-> "",
                            req |-> requestConfig(url, method, defaults,
                                                  Arg(rest, 1), Arg(rest, 2)),
                            closure |-> after]

(***************************************************************************)
(* State                                                                   *)
(***************************************************************************)
OpOrder == <<"getTag", "updateTag">>
OpNames == {OpOrder[k] : k \in 1..Len(OpOrder)}

\* an instance: options is the argument of the constructor as the caller
\* wrote it (ghost), the other fields are what the instance holds
NoInstance ==
    [status |-> "none", options |-> EmptyMap, defaultConfig |-> EmptyMap,
     bound |-> EmptyMap]

\* args are the arguments as passed
Idle ==
    [act |-> "init", inst |-> 0, name |-> "", args |-> <<>>,
     outcome |-> "ok", error |-> "", req |-> NoRequest]

\* the values a promise settles with: the response or the error object of
\* the k-th request of the transport, or the error thrown by resolveHeaders
NoValue == [kind |-> "none", of |-> 0]
Response(k) == [kind |-> "response", of |-> k]
TransportError(k) == [kind |-> "error", of |-> k]
IllegalMethodError == [kind |-> "illegal", of |-> 0]

\* the promise a call returns (p, pv) with the request it made of the
\* transport (sent: the number of $http.request calls; t, tv: the state and
\* value of the promise $http.request returned)
pendingOf(name, outcome) ==
    IF outcome = "request"
    THEN [name |-> name, sent |-> 1, t |-> "pending", tv |-> NoValue,
          p |-> "pending", pv |-> NoValue]
    ELSE \* the executor threw before $http.request: the promise is rejected
         [name |-> name, sent |-> 0, t |-> "none", tv |-> NoValue,
          p |-> "rejected", pv |-> IllegalMethodError]

\* the router guard and the build configuration before anything ran
NoGuard ==
    [api |-> "none", cookie |-> "", storage |-> EmptyMap, now |-> 0,
     navs |-> <<>>, logouts |-> 0, lastOk |-> 0, loggedOut |-> FALSE]

NoBuild == [act |-> "none"]

\* no object has been made
NoHeap == [status |-> "none"]

InitWith(tables) ==
    /\ authored \in tables
    /\ apiDefs = authored
    /\ made = FALSE
    /\ inst = [i \in Instances |-> NoInstance]
    /\ last = Idle
    /\ flight = <<>>
    /\ guard = NoGuard
    /\ build = NoBuild
    /\ heap = NoHeap

\* makeApiModule(apiDefs): rewrites the entries of the table in place and
\* returns a class
MakeApiModule ==
    /\ apiDefs' = normalizeTable(apiDefs)
    /\ made' = TRUE
    /\ last' = [Idle EXCEPT !.act = "make"]
    /\ UNCHANGED <<authored, inst, flight, guard, build, heap>>

\* the first name, in the order of Object.entries, whose definition bindApis
\* rejects; "" if there is none
RECURSIVE FirstInvalid(_, _)
FirstInvalid(defs, k) ==
    IF k > Len(OpOrder) THEN ""
    ELSE IF invalidDef(defs[OpOrder[k]]) THEN OpOrder[k]
    ELSE FirstInvalid(defs, k + 1)

\* new Class(options): the BaseApiModule constructor, then bindApis(apiDefs)(this)
Construct(i, options) ==
    /\ made
    /\ inst[i].status = "none"
    /\ LET bad == FirstInvalid(apiDefs, 1)
       IN  IF bad # ""
           THEN /\ inst' = [inst EXCEPT ![i] = [NoInstance EXCEPT !.status = "failed",
                                                              !.options = options]]
                /\ last' = [Idle EXCEPT !.act = "new", !.inst = i, !.name = bad,
                                        !.outcome = "throw",
                                        !.error = "InvalidDefinition"]
           ELSE /\ inst' = [inst EXCEPT ![i] =
                              [status |-> "ok",
                               options |-> options,
                               defaultConfig |-> makeDefaultConfig(options),
                               bound |-> [n \in OpNames |->
                                            [url |-> defUrl(apiDefs[n]),
                                             method |-> defMethod(apiDefs[n])]]]]
                /\ last' = [Idle EXCEPT !.act = "new", !.inst = i]
    /\ UNCHANGED <<authored, apiDefs, made, flight, guard, build, heap>>

\* mutant of Call: the bound methods are properties of the class prototype,
\* so every instance calls through the same closure
Call_onPrototype(i, name, args) ==
    /\ inst[i].status = "ok"
    /\ Len(flight) < MaxFlight
    /\ LET r == boundCall(inst[i].bound[name], inst[i].defaultConfig, args)
       IN  /\ inst' = [j \in DOMAIN inst |->
                         IF inst[j].status = "ok"
                         THEN [inst[j] EXCEPT !.bound[name] = r.closure]
                         ELSE inst[j]]
           /\ last' = [act |-> "call", inst |-> i, name |-> name, args |-> args,
                       outcome |-> r.outcome, error |-> r.error, req |-> r.req]
           /\ flight' = IF r.outcome = "throw" THEN flight
                        ELSE Append(flight, pendingOf(name, r.outcome))
    /\ UNCHANGED <<authored, apiDefs, made, guard, build, heap>>

\* instance[name](...args): the function bindApis installs and the function
\* of bindModuleMethod it applies, up to the return of the promise
Call(i, name, args) ==
    /\ inst[i].status = "ok"
    /\ Len(flight) < MaxFlight
    /\ LET r == boundCall(inst[i].bound[name], inst[i].defaultConfig, args)
       IN  /\ inst' = [inst EXCEPT ![i].bound[name] = r.closure]
           /\ last' = [act |-> "call", inst |-> i, name |-> name, args |-> args,
                       outcome |-> r.outcome, error |-> r.error, req |-> r.req]
           /\ flight' = IF r.outcome = "throw" THEN flight
                        ELSE Append(flight, pendingOf(name, r.outcome))
    /\ UNCHANGED <<authored, apiDefs, made, guard, build, heap>>

\* the transport settles the promise of its k-th request: it resolves it
\* with a response or rejects it with an error
TransportSettle(k, ok) ==
    /\ k \in 1..Len(flight)
    /\ flight[k].t = "pending"
    /\ flight' = [flight EXCEPT
                     ![k].t = IF ok THEN "resolved" ELSE "rejected",
                     ![k].tv = IF ok THEN Response(k) ELSE TransportError(k)]
    /\ UNCHANGED <<authored, apiDefs, made, inst, last, guard, build, heap>>

\* mutant of Deliver: the error of the transport resolves the promise
Deliver_swallow(k) ==
    /\ k \in 1..Len(flight)
    /\ flight[k].t \in {"resolved", "rejected"}
    /\ flight[k].p = "pending"
    /\ flight' = [flight EXCEPT ![k].p = "resolved", ![k].pv = flight[k].tv]
    /\ UNCHANGED <<authored, apiDefs, made, inst, last, guard, build, heap>>

\* mutant of Deliver: resolve and reject are those of the latest call
Deliver_latest(k) ==
    /\ k \in 1..Len(flight)
    /\ flight[k].t \in {"resolved", "rejected"}
    /\ flight[Len(flight)].p = "pending"
    /\ flight' = [flight EXCEPT ![Len(flight)].p = flight[k].t,
                                ![Len(flight)].pv = flight[k].tv]
    /\ UNCHANGED <<authored, apiDefs, made, inst, last, guard, build, heap>>

\* the handlers of lines 98-99 run for the k-th request:
\* .then(response => resolve(response)).catch(error => reject(error))
Deliver(k) ==
    /\ k \in 1..Len(flight)
    /\ flight[k].t \in {"resolved", "rejected"}
    /\ flight[k].p = "pending"
    /\ flight' = [flight EXCEPT ![k].p = flight[k].t, ![k].pv = flight[k].tv]
    /\ UNCHANGED <<authored, apiDefs, made, inst, last, guard, build, heap>>

\* resolveConfig(method, defaults, extras) applied on its own
Resolve(method, defaults, extras) ==
    /\ last' = IF resolveConfigThrows(method, defaults, extras)
               THEN [Idle EXCEPT !.act = "resolve", !.name = method,
                                 !.args = <<Obj(defaults), Obj(extras)>>,
                                 !.outcome = "throw", !.error = "IllegalMethod"]
               ELSE [Idle EXCEPT !.act = "resolve", !.name = method,
                                 !.args = <<Obj(defaults), Obj(extras)>>,
                                 !.req = resolveConfig(method, defaults, extras)]
    /\ UNCHANGED <<authored, apiDefs, made, inst, flight, guard, build, heap>>

\* resolveHeaders(method, defaults, extras) applied on its own
ResolveHeaders(method, defaults, extras) ==
    /\ last' = IF resolveHeadersThrows(method)
               THEN [Idle EXCEPT !.act = "headers", !.name = method,
                                 !.args = <<Obj(defaults), Obj(extras)>>,
                                 !.outcome = "throw", !.error = "IllegalMethod"]
               ELSE [Idle EXCEPT !.act = "headers", !.name = method,
                                 !.args = <<Obj(defaults), Obj(extras)>>,
                                 !.req = resolveHeaders(method, defaults, extras)]
    /\ UNCHANGED <<authored, apiDefs, made, inst, flight, guard, build, heap>>

(***************************************************************************)
(* Inputs                                                                  *)
(***************************************************************************)
TagsId == <<"/", "t", "/", ":", "i", "d">>
Tags == <<"/", "t">>
IdX == <<"/", ":", "i", "d", "/", ":", "x">>
Other == <<"/", "o">>

P(n) == Obj([id |-> n])
PX(n) == Obj([id |-> n, x |-> 1])
X1 == Obj([x |-> 1])
N1 == Obj([name |-> 1])
Five == Num(5)
NoKeys == Obj(EmptyMap)

CfgTimeout == Obj([timeout |-> 1])
CfgUrl == Obj([url |-> Other])
CfgMethod == Obj([method |-> "POST"])

\* a url template has a `:name` placeholder token
hasPlaceholder(u) ==
    u # UndefinedStr /\ \E i \in 1..(Len(u) - 1) : u[i] = ":" /\ u[i + 1] \in WordChars

\* the url template the caller wrote for a definition, in any shape
authoredUrl(def) ==
    CASE def.shape = "string" -> def.str
      [] def.shape = "array" -> IF Len(def.arr) >= 2 THEN def.arr[2] ELSE UndefinedStr
      [] OTHER -> defUrl(def)

\* the method the caller wrote for a definition, in any shape
authoredMethod(def) ==
    CASE def.shape = "string" -> "GET"
      [] def.shape = "array" -> IF Len(def.arr) >= 1 THEN def.arr[1] ELSE UndefinedMethod
      [] OTHER -> defMethod(def)

\* argument lists as the module's usage comment gives them:
\* (params, payload, config) for a template with a placeholder and
\* (payload, config) for one without
ParamArgs(configs) ==
    {<<>>, <<NoKeys>>, <<Five>>, <<Five, X1>>}
    \cup {<<P(n)>> : n \in Ids}
    \cup {<<PX(n)>> : n \in Ids}
    \cup {<<P(n), X1>> : n \in Ids}
    \cup {<<P(n), N1>> : n \in Ids}
    \cup {<<P(7), N1, c>> : c \in configs}
    \cup {<<P(7), Undef, c>> : c \in configs}

PlainArgs(configs) ==
    {<<>>, <<X1>>, <<N1>>, <<NoKeys>>, <<Five>>, <<X1, CfgTimeout, CfgUrl>>}
    \cup {<<X1, c>> : c \in configs}
    \cup {<<Undef, c>> : c \in configs}

ArgsFor(def, configs) ==
    IF hasPlaceholder(authoredUrl(def)) THEN ParamArgs(configs) ELSE PlainArgs(configs)

Table(a, b) == [n \in OpNames |-> IF n = "getTag" THEN a ELSE b]

(***************************************************************************)
(* Spec: binding and dispatch of the bound methods                         *)
(***************************************************************************)
BindTables ==
    { Table(StrDef(TagsId), PairDef(<<"put", TagsId>>)),
      Table(PairDef(<<"GET", Tags>>), ObjDef([method |-> "POST", url |-> Tags])),
      Table(PairDef(<<"delete", IdX>>), PairDef(<<"Put", TagsId>>)) }

BindConfigs == {CfgTimeout, CfgUrl, CfgMethod}

BindOptions == {EmptyMap, [headers |-> [A |-> SV("1")]]}

Init == InitWith(BindTables)

Next ==
    \/ MakeApiModule
    \/ \E i \in Instances, o \in BindOptions : Construct(i, o)
    \/ \E i \in Instances, n \in OpNames :
         \E a \in ArgsFor(authored[n], BindConfigs) : Call(i, n, a)

Spec == Init /\ [][Next]_vars

(***************************************************************************)
(* What the calling convention says of one call: the arguments read        *)
(* against the definition's url template                                   *)
(***************************************************************************)
\* the definition's template has a placeholder and the first argument is a
\* plain mapping
readsParams(def, args) ==
    hasPlaceholder(authoredUrl(def)) /\ Len(args) > 0 /\ isObject(args[1])

payloadOf(def, args) == IF readsParams(def, args) THEN Arg(args, 2) ELSE Arg(args, 1)

configOf(def, args) ==
    ConfigOf(IF readsParams(def, args) THEN Arg(args, 3) ELSE Arg(args, 2))

\* the template with every `:name` token replaced by params[name]
resolvedUrl(def, args) ==
    IF readsParams(def, args)
    THEN ReplaceFrom(authoredUrl(def), 1, args[1].obj)
    ELSE authoredUrl(def)

\* the part of a url before its first `?`
RECURSIVE PathOf(_)
PathOf(u) ==
    IF u = <<>> \/ Head(u) = "?" THEN <<>> ELSE <<Head(u)>> \o PathOf(Tail(u))

IsCall == last.act = "call"
IsRequest == last.act = "call" /\ last.outcome = "request"
LastDef == authored[last.name]
LastMethod == toLowerCase(authoredMethod(LastDef))
SendsBody == LastMethod \in {"post", "put"}

\* C1: the request of a call is determined by the operation's definition,
\* the instance's default config and the call's own arguments only: it is
\* the request a freshly bound method issues for the same arguments.
C1_CallsIndependent ==
    IsCall =>
        LET fresh == boundCall([url |-> authoredUrl(LastDef),
                                method |-> authoredMethod(LastDef)],
                               inst[last.inst].defaultConfig, last.args)
        IN  last.outcome = fresh.outcome /\ last.req = fresh.req

\* C2: when the template has a `:name` token and the first argument is a
\* plain mapping, the url of the request is the template with every token
\* replaced by params[name] (the override sets no url of its own).
C2_PathSubstituted ==
    (IsCall /\ readsParams(LastDef, last.args)
        /\ "url" \notin DOMAIN configOf(LastDef, last.args)) =>
        /\ last.outcome = "request"
        /\ PathOf(last.req.url) = ReplaceFrom(authoredUrl(LastDef), 1, last.args[1].obj)

\* C3: for a POST or PUT operation the effective payload of the call is the
\* body of the request, and the url carries no query string.
C3_BodyDispatch ==
    (IsCall /\ SendsBody) =>
        /\ last.outcome = "request"
        /\ ~Contains(last.req.url, <<"?">>)
        /\ payloadOf(LastDef, last.args).kind # "undefined" =>
              /\ "data" \in DOMAIN last.req
              /\ last.req.data = payloadOf(LastDef, last.args)

\* C4: for any other method a payload that is present is appended to the
\* resolved url as `?` and its query string, without a body; without a
\* payload the request goes to the resolved url unchanged (the override
\* sets no url or data of its own).
C4_QueryDispatch ==
    (IsCall /\ ~SendsBody
        /\ {"url", "data"} \cap DOMAIN configOf(LastDef, last.args) = {}) =>
        /\ last.outcome = "request"
        /\ "data" \notin DOMAIN last.req
        /\ last.req.url =
              IF payloadOf(LastDef, last.args).kind # "undefined"
              THEN resolvedUrl(LastDef, last.args) \o <<"?">>
                   \o qsStringify(payloadOf(LastDef, last.args))
              ELSE resolvedUrl(LastDef, last.args)

(***************************************************************************)
(* SpecDefs: definition tables in every shape, complete and incomplete     *)
(***************************************************************************)
DefMethods == {"GET", "put"}
DefUrls == {TagsId, Tags}

CompleteDefs ==
    {StrDef(u) : u \in DefUrls}
    \cup {PairDef(<<m, u>>) : m \in DefMethods, u \in DefUrls}
    \cup {ObjDef([method |-> m, url |-> u]) : m \in DefMethods, u \in DefUrls}

IncompleteDefs ==
    {NullDef, ObjDef(EmptyMap), StrDef(<<>>), PairDef(<<>>), PairDef(<<"get">>),
     ObjDef([method |-> "get"]), PairDef(<<"BOGUS", Tags>>)}

DefTables == {Table(a, b) : a \in CompleteDefs \cup IncompleteDefs,
                            b \in CompleteDefs \cup IncompleteDefs}

DefArgs == {<<>>, <<X1>>} \cup {<<P(n)>> : n \in Ids}

InitDefs == InitWith(DefTables)

NextDefs ==
    \/ MakeApiModule
    \/ Construct(1, EmptyMap)
    \/ \E n \in OpNames, a \in DefArgs : Call(1, n, a)

SpecDefs == InitDefs /\ [][NextDefs]_vars

\* a definition that names both a method and a url
isComplete(def) ==
    authoredMethod(def) # UndefinedMethod /\ authoredUrl(def) # UndefinedStr

sameOperation(d1, d2) ==
    /\ isComplete(d1) /\ isComplete(d2)
    /\ authoredMethod(d1) = authoredMethod(d2)
    /\ authoredUrl(d1) = authoredUrl(d2)

\* C5: the shapes are equivalent.  After makeApiModule every complete entry
\* holds the canonical {method, url} object of its method and url, so entries
\* of different shapes with the same method and url hold equal definitions;
\* normalising the canonical table again changes nothing; and bound methods
\* built from such entries, with their closures at the same url, issue the
\* same request for the same arguments.
C5_ShapesEquivalent ==
    made =>
      /\ \A n \in OpNames :
            isComplete(authored[n]) =>
               apiDefs[n] = ObjDef([method |-> authoredMethod(authored[n]),
                                    url |-> authoredUrl(authored[n])])
      /\ \A n1, n2 \in OpNames :
            sameOperation(authored[n1], authored[n2]) => apiDefs[n1] = apiDefs[n2]
      /\ normalizeTable(apiDefs) = apiDefs
      /\ \A i \in Instances, n1, n2 \in OpNames :
            (/\ inst[i].status = "ok"
             /\ sameOperation(authored[n1], authored[n2])
             /\ inst[i].bound[n1].url = inst[i].bound[n2].url) =>
               \A a \in DefArgs :
                  LET r1 == boundCall(inst[i].bound[n1], inst[i].defaultConfig, a)
                      r2 == boundCall(inst[i].bound[n2], inst[i].defaultConfig, a)
                  IN  r1.outcome = r2.outcome /\ r1.req = r2.req

\* C5 witness: a string entry and a pair entry of the same operation were
\* normalised and bound, and one of them has issued a request
C5_Witness ==
    /\ IsRequest
    /\ authored["getTag"].shape = "string"
    /\ authored["updateTag"].shape = "array"
    /\ sameOperation(authored["getTag"], authored["updateTag"])
    /\ inst[1].bound["getTag"].url = inst[1].bound["updateTag"].url
    /\ inst[1].bound["getTag"].method # inst[1].bound["updateTag"].method

\* an entry bindApis rejects: absent (null, undefined) or an empty object
rejectedEntry(def) ==
    def.shape = "null" \/ (def.shape = "object" /\ DOMAIN def.obj = {})

emptyEntry(def) ==
    \/ def.shape = "null"
    \/ def.shape = "string" /\ def.str = <<>>
    \/ def.shape = "array" /\ Len(def.arr) < 2
    \/ def.shape = "object" /\ "url" \notin DOMAIN def.obj

\* C7: every definition of an instantiated module has a non-empty url
\* template and an allowed method, and a table with an empty or absent entry
\* has no instance.
C7_DefinitionsValid ==
    \A i \in Instances :
       inst[i].status = "ok" =>
          /\ \A n \in OpNames :
                /\ defUrl(apiDefs[n]) \notin {UndefinedStr, <<>>}
                /\ isLegalMethod(defMethod(apiDefs[n]))
          /\ \A n \in OpNames : ~emptyEntry(authored[n])

(***************************************************************************)
(* SpecHeaders: resolveConfig on its own and through the bound methods,    *)
(* with header maps that carry flat headers, sub-maps and falsy values     *)
(***************************************************************************)
HeaderMaps ==
    { EmptyMap,
      [common |-> MV([A |-> SV("1")]), post |-> MV([B |-> SV("2")])],
      [A |-> SV("f"), common |-> MV([A |-> SV("c"), B |-> SV("c")]),
       post |-> MV([B |-> SV("p"), C |-> SV("p")]), get |-> MV([D |-> SV("g")])],
      [A |-> SV("f"), common |-> SV("")],
      [get |-> SV(""), post |-> MV([B |-> SV("2")])] }

OverrideHeaders ==
    { [C |-> SV("3")],
      [A |-> SV("o"), B |-> SV("o")],
      [common |-> MV([D |-> SV("4")]), post |-> MV([E |-> SV("5")])],
      [common |-> MV([A |-> SV("oc")]), C |-> SV("3")],
      [post |-> SV("")] }

HeaderConfigs ==
    {EmptyMap, [timeout |-> 1]} \cup {[headers |-> h] : h \in OverrideHeaders}

ResolveMethods == {"post", "POST", "get", "BOGUS"}

HeaderTables ==
    {Table(StrDef(Tags), PairDef(<<"post", Tags>>))}

InitHeaders == InitWith(HeaderTables)

NextHeaders ==
    \/ MakeApiModule
    \/ \E h \in HeaderMaps : Construct(1, [headers |-> h])
    \/ \E n \in OpNames, c \in HeaderConfigs : Call(1, n, <<X1, Obj(c)>>)
    \/ \E m \in ResolveMethods, c \in HeaderConfigs :
         \E d \in {EmptyMap} \cup {[headers |-> h] : h \in HeaderMaps} :
            Resolve(m, d, c)

SpecHeaders == InitHeaders /\ [][NextHeaders]_vars

\* the last operation resolved a config that carries headers
Resolved ==
    /\ \/ last.act = "call" /\ last.outcome = "request"
       \/ last.act = "resolve" /\ last.outcome = "ok"
    /\ "headers" \in DOMAIN last.req

\* its inputs: the method, the default headers and the override headers
ResMethod ==
    IF last.act = "call" THEN LastMethod ELSE toLowerCase(last.name)
ResDefaults ==
    IF last.act = "call" THEN HeadersOf(inst[last.inst].defaultConfig)
    ELSE HeadersOf(last.args[1].obj)
ResOverride ==
    IF last.act = "call" THEN HeadersOf(configOf(LastDef, last.args))
    ELSE HeadersOf(last.args[2].obj)

\* the sub-map a header map holds under a key, empty if it holds none
subMap(h, key) ==
    IF key \in DOMAIN h /\ h[key].tag = "map" THEN h[key].m ELSE EmptyMap

flatKeys(h) == DOMAIN h \ BookKeys

\* the layers below the override, by precedence: the method's sub-map, the
\* common sub-map, the flat default headers
defaultLayers(k) ==
    IF k \in DOMAIN subMap(ResDefaults, ResMethod) THEN subMap(ResDefaults, ResMethod)[k]
    ELSE IF k \in DOMAIN subMap(ResDefaults, "common") THEN subMap(ResDefaults, "common")[k]
    ELSE ResDefaults[k]

defaultLayerKeys ==
    flatKeys(ResDefaults) \cup flatKeys(subMap(ResDefaults, "common"))
        \cup flatKeys(subMap(ResDefaults, ResMethod))

foldedHeaders ==
    [k \in defaultLayerKeys \cup flatKeys(ResOverride) |->
        IF k \in DOMAIN ResOverride THEN ResOverride[k] ELSE defaultLayers(k)]

holdsSubMapsOnly(h) == \A k \in DOMAIN h \cap BookKeys : h[k].tag = "map"

\* C8: the flat headers of the resolved config are the fold of the flat
\* default headers, the defaults' common sub-map, the defaults' sub-map of
\* the method and the override headers, later layers winning; with sub-maps
\* under the bookkeeping keys the header map is exactly that fold.
C8_HeadersFolded ==
    Resolved =>
       /\ [k \in flatKeys(last.req.headers) |-> last.req.headers[k]] = foldedHeaders
       /\ (holdsSubMapsOnly(ResDefaults) /\ holdsSubMapsOnly(ResOverride)) =>
             last.req.headers = foldedHeaders

\* C8 witness: resolveConfig('post', {headers: {common: {A: 1}, post: {B: 2}}},
\* {headers: {C: 3}}) gave the headers {A: 1, B: 2, C: 3}
C8_Witness ==
    /\ last.act = "resolve" /\ last.name = "post"
    /\ last.args = <<Obj([headers |-> [common |-> MV([A |-> SV("1")]),
                                       post |-> MV([B |-> SV("2")])]]),
                     Obj([headers |-> [C |-> SV("3")]])>>
    /\ last.req.headers = [A |-> SV("1"), B |-> SV("2"), C |-> SV("3")]

\* C9: the header map handed to the transport contains none of the
\* bookkeeping keys, whatever values they hold.
C9_NoBookkeepingKeys ==
    (IsRequest /\ "headers" \in DOMAIN last.req) =>
        DOMAIN last.req.headers \cap BookKeys = {}

\* the sub-maps the override itself holds under `common` and the method
overrideSubKeys ==
    {k \in {"common", ResMethod} : subMap(ResOverride, k) # EmptyMap}

\* C10 (as amended): the override's own sub-maps are not folded.  A sub-map
\* the override holds under `common` or under the request's method is
\* removed, and a header named in it appears in the resolved headers only
\* when another layer sets it, with that layer's value.
C10_OverrideSubMapsDropped ==
    Resolved =>
       \A k \in overrideSubKeys :
          /\ k \notin DOMAIN last.req.headers
          /\ \A h \in DOMAIN subMap(ResOverride, k) :
                IF h \in DOMAIN foldedHeaders
                THEN last.req.headers[h] = foldedHeaders[h]
                ELSE h \notin DOMAIN last.req.headers

\* C10 witness: a request was issued with an override whose headers hold
\* sub-maps under `common` and under the method of the request
C10_Witness ==
    /\ Resolved /\ last.act = "call"
    /\ overrideSubKeys = {"common", "post"}

\* C10 as stated: the headers of the override's sub-maps appear as flat
\* headers of the resolved request.
C10_OverrideSubMapsFolded ==
    Resolved =>
       \A k \in overrideSubKeys : \A h \in DOMAIN subMap(ResOverride, k) :
          /\ h \in DOMAIN last.req.headers
          /\ k = ResMethod => last.req.headers[h] = subMap(ResOverride, k)[h]

(***************************************************************************)
(* SpecLayers: the layers of a request's config: the library's default     *)
(* options, the options of the constructor, the override of the call       *)
(***************************************************************************)
LayerTables == {Table(StrDef(Tags), PairDef(<<"post", Tags>>))}

LayerOptions ==
    { EmptyMap,
      [headers |-> [A |-> SV("m")]],
      [timeout |-> 2],
      [headers |-> ("Content-Type" :> SV("text/plain")) @@ [A |-> SV("m")],
       timeout |-> 2] }

LayerConfigs ==
    { EmptyMap,
      [timeout |-> 1],
      [headers |-> [A |-> SV("o")]],
      [headers |-> [B |-> SV("o")], timeout |-> 1],
      [xsrfCookieName |-> "token"] }

LayerArgs ==
    {<<>>, <<X1>>}
    \cup {<<X1, Obj(c)>> : c \in LayerConfigs}
    \cup {<<Undef, Obj(c)>> : c \in LayerConfigs}

InitLayers == InitWith(LayerTables)

NextLayers ==
    \/ MakeApiModule
    \/ \E o \in LayerOptions : Construct(1, o)
    \/ \E n \in OpNames, a \in LayerArgs : Call(1, n, a)

SpecLayers == InitLayers /\ [][NextLayers]_vars

\* the keys of a request that the binder sets per call
CallKeys == {"url", "method", "data"}

\* the value the highest of the three layers gives a key
topLayer(lib, opts, ov, k) ==
    IF k \in DOMAIN ov THEN ov[k]
    ELSE IF k \in DOMAIN opts THEN opts[k]
    ELSE lib[k]

\* C11: the config of a request is the merge of the library's default
\* options, the options given to the constructor and the override of the
\* call: every config key and every header set in one of the layers is in
\* the request with the value of the highest layer that sets it.
C11_LayersMerged ==
    IsRequest =>
       LET lib == DefaultOptions
           opts == inst[last.inst].options
           ov == configOf(LastDef, last.args)
           keys == (DOMAIN lib \cup DOMAIN opts \cup DOMAIN ov)
                      \ ({"headers"} \cup CallKeys)
           hkeys == DOMAIN HeadersOf(lib) \cup DOMAIN HeadersOf(opts)
                       \cup DOMAIN HeadersOf(ov)
       IN  /\ \A k \in keys :
                 /\ k \in DOMAIN last.req
                 /\ last.req[k] = topLayer(lib, opts, ov, k)
           /\ \A h \in hkeys :
                 /\ h \in DOMAIN last.req.headers
                 /\ last.req.headers[h] =
                       topLayer(HeadersOf(lib), HeadersOf(opts), HeadersOf(ov), h)

(***************************************************************************)
(* SpecMethods: methods spelled in different letter cases, in definitions  *)
(* and as the argument of resolveConfig and resolveHeaders                 *)
(***************************************************************************)
\* spellings that differ in letter case only
CaseClasses ==
    { {"get", "GET", "Get"}, {"put", "PUT", "Put"}, {"post", "POST"},
      {"delete", "DELETE"}, {"bogus", "BOGUS"} }

classOf(m) == CHOOSE c \in CaseClasses : m \in c

\* some spelling of the method is one of the allowed lower-case names
classLegal(m) == classOf(m) \cap LegalMethods # {}

MethodSpellings == {"get", "GET", "Get", "put", "PUT", "Put", "bogus", "BOGUS"}

DefSpellings == {"get", "GET", "Get", "put", "BOGUS"}

MethodTables ==
    {Table(PairDef(<<m1, Tags>>), PairDef(<<m2, Tags>>)) : m1, m2 \in DefSpellings}

MethodHeaders ==
    [A |-> SV("f"), get |-> MV([B |-> SV("g")]), put |-> MV([B |-> SV("p")])]

MethodArgs == {<<>>, <<X1>>, <<X1, CfgTimeout>>}

MethodDefaults == {EmptyMap, [headers |-> MethodHeaders]}

MethodExtras == {EmptyMap, [timeout |-> 1], [headers |-> [C |-> SV("3")]]}

InitMethods == InitWith(MethodTables)

NextMethods ==
    \/ MakeApiModule
    \/ Construct(1, [headers |-> MethodHeaders])
    \/ \E n \in OpNames, a \in MethodArgs : Call(1, n, a)
    \/ \E m \in MethodSpellings, d \in MethodDefaults, e \in MethodExtras :
          Resolve(m, d, e)
    \/ \E m \in MethodSpellings, d \in {EmptyMap, MethodHeaders} :
          ResolveHeaders(m, d, [C |-> SV("3")])

SpecMethods == InitMethods /\ [][NextMethods]_vars

\* C12: spellings of a method that differ in letter case only are treated
\* alike.  resolveConfig and resolveHeaders give the same result (the same
\* value, or the error in both cases) for every spelling of the method;
\* wherever the method is checked (resolveHeaders, which resolveConfig
\* reaches unless both configs are empty, and every call of a bound method)
\* it is rejected exactly when no spelling of it is an allowed lower-case
\* name; and bound methods whose definitions differ in the spelling of the
\* method only issue the same request for the same arguments.
C12_CaseInsensitive ==
    /\ last.act = "resolve" =>
          LET d == last.args[1].obj
              e == last.args[2].obj
          IN  /\ \A m \in classOf(last.name) :
                    /\ resolveConfigThrows(m, d, e) <=> last.outcome = "throw"
                    /\ last.outcome = "ok" => resolveConfig(m, d, e) = last.req
              /\ ~(isEmptyObject(d) /\ isEmptyObject(e)) =>
                    (last.outcome = "throw" <=> ~classLegal(last.name))
    /\ last.act = "headers" =>
          /\ last.outcome = "throw" <=> ~classLegal(last.name)
          /\ \A m \in classOf(last.name) :
                /\ resolveHeadersThrows(m) <=> last.outcome = "throw"
                /\ last.outcome = "ok" =>
                      resolveHeaders(m, last.args[1].obj, last.args[2].obj) = last.req
    /\ IsCall =>
          /\ last.outcome = "reject" <=> ~classLegal(authoredMethod(LastDef))
          /\ last.outcome = "reject" => last.error = "IllegalMethod"
          /\ last.outcome # "throw"
          /\ \A n \in OpNames :
                (/\ authoredMethod(authored[n]) \in classOf(authoredMethod(LastDef))
                 /\ authoredUrl(authored[n]) = authoredUrl(LastDef)) =>
                   LET r == boundCall(inst[last.inst].bound[n],
                                      inst[last.inst].defaultConfig, last.args)
                   IN  r.outcome = last.outcome /\ r.req = last.req

\* C12 witness: a request was issued by a method defined with `Get` while
\* the other definition spells the method `get`, and the request carries the
\* headers of the defaults' `get` sub-map
C12_Witness ==
    /\ IsRequest /\ last.name = "getTag"
    /\ authoredMethod(authored["getTag"]) = "Get"
    /\ authoredMethod(authored["updateTag"]) = "get"
    /\ last.req.method = "get"
    /\ "B" \in DOMAIN last.req.headers /\ last.req.headers["B"] = SV("g")

(***************************************************************************)
(* resolveConfig on its own (SpecHeaders): the illegal-method error and    *)
(* the early return                                                        *)
(***************************************************************************)
IsResolve == last.act = "resolve"

\* both configs of the last resolveConfig are empty
bothEmpty == isEmptyObject(last.args[1].obj) /\ isEmptyObject(last.args[2].obj)

\* C13 (as amended): resolveConfig fails with the illegal-method error
\* exactly when the method is not an allowed one and at least one of the two
\* configs has a key, whether or not a config carries headers; with two
\* empty configs it returns {} without checking the method.
C13_RejectsUnlessEmpty ==
    IsResolve =>
       /\ (last.outcome = "throw" /\ last.error = "IllegalMethod"
               /\ last.req = NoRequest)
             <=> (~isLegalMethod(last.name) /\ ~bothEmpty)
       /\ (~isLegalMethod(last.name) /\ bothEmpty) =>
             (last.outcome = "ok" /\ last.req = EmptyMap)

\* C13 witness: resolveConfig('BOGUS', {}, {timeout: 1}), no headers in
\* either config, raised the error
C13_Witness ==
    /\ IsResolve /\ last.name = "BOGUS"
    /\ last.args = <<Obj(EmptyMap), Obj([timeout |-> 1])>>
    /\ last.outcome = "throw" /\ last.error = "IllegalMethod"

\* C13 as stated: resolveConfig fails for every method that is not an
\* allowed one, whatever the two configs are.
C13_RejectsAlways ==
    (IsResolve /\ ~isLegalMethod(last.name)) =>
        (last.outcome = "throw" /\ last.error = "IllegalMethod")

\* a header map without sub-maps
isFlat(h) == \A k \in DOMAIN h : h[k].tag = "scalar"

\* C14: resolveConfig returns {} (no `headers` key) when both configs are
\* empty; when one of them has a key and the method is allowed, the result
\* has a `headers` key that holds a flat header map.
C14_EmptyOrHeaders ==
    IsResolve =>
       /\ bothEmpty => (last.outcome = "ok" /\ last.req = EmptyMap)
       /\ (~bothEmpty /\ last.outcome = "ok") =>
             /\ "headers" \in DOMAIN last.req
             /\ isFlat(last.req.headers)
       /\ (~bothEmpty /\ isLegalMethod(last.name)) => last.outcome = "ok"

\* C14 witness: resolveConfig with default headers that hold sub-maps gave
\* a result with a flat, non-empty header map
C14_Witness ==
    /\ IsResolve /\ last.outcome = "ok" /\ ~bothEmpty
    /\ \E k \in DOMAIN HeadersOf(last.args[1].obj) :
          HeadersOf(last.args[1].obj)[k].tag = "map"
    /\ "headers" \in DOMAIN last.req
    /\ last.req.headers # EmptyMap
    /\ isFlat(last.req.headers)

(***************************************************************************)
(* SpecFlight: calls in flight.  The transport settles the requests in any *)
(* order, or never; the handlers a call attached to its request run once   *)
(* the request is settled (weak fairness of Deliver).  The definitions are *)
(* valid ones: each names a url and an allowed method.                     *)
(***************************************************************************)
FlightTables == {Table(StrDef(Tags), PairDef(<<"put", TagsId>>))}

FlightOptions ==
    {[headers |-> [A |-> SV("m"), common |-> MV([B |-> SV("c")])]]}

CfgHeaders == Obj([headers |-> [C |-> SV("3")]])

FlightArgs(def) ==
    IF hasPlaceholder(authoredUrl(def))
    THEN {<<P(7), N1>>, <<P(7), N1, CfgHeaders>>}
    ELSE {<<>>, <<X1, CfgTimeout>>}

Slots == 1..MaxFlight

InitFlight == InitWith(FlightTables)

NextFlight ==
    \/ MakeApiModule
    \/ \E o \in FlightOptions : Construct(1, o)
    \/ \E n \in OpNames : \E a \in FlightArgs(authored[n]) : Call(1, n, a)
    \/ \E k \in Slots, ok \in BOOLEAN : TransportSettle(k, ok)
    \/ \E k \in Slots : Deliver(k)

SpecFlight ==
    InitFlight /\ [][NextFlight]_vars /\ \A k \in Slots : WF_vars(Deliver(k))

Calls == 1..Len(flight)

\* every call made one request of the transport and holds a promise that is
\* pending or settled as the request's promise is, with the same value
settledAsTransport ==
    /\ IsCall => (last.outcome = "request" /\ flight # <<>>)
    /\ \A k \in Calls :
          /\ flight[k].sent = 1
          /\ flight[k].p = "pending" => flight[k].pv = NoValue
          /\ flight[k].p = "resolved" =>
                (flight[k].t = "resolved" /\ flight[k].pv = Response(k))
          /\ flight[k].p = "rejected" =>
                (flight[k].t = "rejected" /\ flight[k].pv = TransportError(k))

\* a step makes no further request for a call and leaves a settled promise
\* as it is
settlesOnce ==
    \A k \in Calls :
       /\ k \in 1..Len(flight')
       /\ flight'[k].sent = flight[k].sent
       /\ flight[k].p # "pending" =>
             (flight'[k].p = flight[k].p /\ flight'[k].pv = flight[k].pv)

\* the transport has settled the request of the k-th call this way
transportIs(k, state) == k \in Calls /\ flight[k].t = state

\* the promise of the k-th call is settled this way with this value
promiseIs(k, state, value) ==
    k \in Calls /\ flight[k].p = state /\ flight[k].pv = value

\* C15: each call makes exactly one request of the transport and returns a
\* promise that settles at most once: it resolves with the response the
\* transport resolved the request with, or rejects with the error the
\* transport rejected it with; and once the transport has settled the
\* request, the promise eventually settles the same way.
C15_SettlesAsTransport ==
    /\ []settledAsTransport
    /\ [][settlesOnce]_vars
    /\ \A k \in Slots :
          /\ transportIs(k, "resolved") ~> promiseIs(k, "resolved", Response(k))
          /\ transportIs(k, "rejected") ~> promiseIs(k, "rejected", TransportError(k))

\* C15 witness: the promise of the first call is rejected with the error of
\* its request, the promise of the second resolved with its response
C15_Witness ==
    /\ Len(flight) >= 2
    /\ flight[1].p = "rejected" /\ flight[1].pv = TransportError(1)
    /\ flight[2].p = "resolved" /\ flight[2].pv = Response(2)

\* every settled promise holds the outcome of the request of its own call,
\* and a promise whose request is settled can be settled whatever the state
\* of the other calls
ownOutcome ==
    \A k \in Calls :
       /\ flight[k].p # "pending" =>
             /\ flight[k].p = flight[k].t
             /\ flight[k].pv = flight[k].tv
             /\ flight[k].pv.of = k
       /\ (flight[k].p = "pending" /\ flight[k].t \in {"resolved", "rejected"}) =>
             ENABLED Deliver(k)

\* a step that settles the promise of one call leaves the other calls as
\* they are
othersUntouched ==
    \A k \in Calls :
       (k \in 1..Len(flight') /\ flight'[k].p # flight[k].p) =>
          \A j \in Calls \ {k} : j \in 1..Len(flight') /\ flight'[j] = flight[j]

\* C16: with several calls in flight, on the same or on different
\* operations, and for every order in which the transport completes them,
\* each promise is settled with the outcome of its own request; the failure
\* of one call neither rejects nor delays the others.
C16_OwnOutcome ==
    /\ []ownOutcome
    /\ [][othersUntouched]_vars

\* C16 witness: two calls of the same operation in flight; the transport
\* rejected the second first, its promise is rejected with that error while
\* the request of the first is still pending
C16_Witness ==
    /\ Len(flight) >= 2
    /\ flight[1].name = flight[2].name
    /\ flight[1].t = "pending" /\ flight[1].p = "pending"
    /\ flight[2].p = "rejected" /\ flight[2].pv = TransportError(2)

(***************************************************************************)
(* SpecHeap: the objects of a call by address.  An object is a cell of the *)
(* memory `mem`, a property holds a primitive or the address of a cell;    *)
(* an object literal makes a new cell, a property assignment and `delete`  *)
(* write to the cell the expression names.  The caller's objects (options, *)
(* path parameters, payloads, override config) and defaultOptions of       *)
(* api.config.js are cells made before the instance is.                    *)
(***************************************************************************)
HUndef == [tag |-> "undefined", s |-> "", n |-> 0, u |-> <<>>, a |-> 0]
HStr(s) == [tag |-> "string", s |-> s, n |-> 0, u |-> <<>>, a |-> 0]
HNum(n) == [tag |-> "number", s |-> "", n |-> n, u |-> <<>>, a |-> 0]
HUrl(u) == [tag |-> "url", s |-> "", n |-> 0, u |-> u, a |-> 0]
HRef(a) == [tag |-> "ref", s |-> "", n |-> 0, u |-> <<>>, a |-> a]

\* the truth value JavaScript gives a property value
hTruthy(v) ==
    \/ v.tag = "ref"
    \/ v.tag = "string" /\ v.s # ""
    \/ v.tag = "number" /\ v.n # 0
    \/ v.tag = "url" /\ v.u # <<>>

\* the own properties a spread copies from a value: those of the object it
\* refers to, none of undefined or of a number
propsOf(mem, v) == IF v.tag = "ref" THEN mem[v.a] ELSE EmptyMap

\* v[key]
getProp(mem, v, key) ==
    IF v.tag = "ref" /\ key \in DOMAIN mem[v.a] THEN mem[v.a][key] ELSE HUndef

\* an object literal: a new cell with these properties, and its address
alloc(mem, props) == [mem |-> Append(mem, props), ret |-> HRef(Len(mem) + 1)]

\* obj[key] = v
setProp(mem, obj, key, v) ==
    [mem EXCEPT ![obj.a] =
        [k \in DOMAIN mem[obj.a] \cup {key} |->
            IF k = key THEN v ELSE mem[obj.a][k]]]

\* isEmptyObject(obj) of a property value
isEmptyIn(mem, v) == ~hTruthy(v) \/ DOMAIN propsOf(mem, v) = {}

\* cleanupHeaders(headers): deletes the truthy bookkeeping props from the
\* object passed and returns that object
cleanupHeadersIn(mem, headers) ==
    [mem |-> [mem EXCEPT ![headers.a] =
                [k \in {h \in DOMAIN mem[headers.a] :
                           ~(h \in BookKeys /\ hTruthy(mem[headers.a][h]))}
                    |-> mem[headers.a][k]]],
     ret |-> headers]

\* defaults[key] || {}, as the spread sees it
subPropsIn(mem, defaults, key) ==
    IF hTruthy(getProp(mem, defaults, key))
    THEN propsOf(mem, getProp(mem, defaults, key))
    ELSE EmptyMap

\* the layers resolveHeaders spreads, in their order
headerLayers(mem, method, defaults, extras) ==
    Merge(Merge(Merge(propsOf(mem, defaults),
                      subPropsIn(mem, defaults, "common")),
                subPropsIn(mem, defaults, toLowerCase(method))),
          propsOf(mem, extras))

\* mutant of resolveHeadersIn: the layers are assigned to `defaults`
\* (Object.assign(defaults, ...)) in place of a new literal
resolveHeadersIn_assign(mem, method, defaults, extras) ==
    IF defaults.tag = "ref"
    THEN cleanupHeadersIn(
             [mem EXCEPT ![defaults.a] = headerLayers(mem, method, defaults, extras)],
             defaults)
    ELSE LET literal == alloc(mem, headerLayers(mem, method, defaults, extras))
         IN  cleanupHeadersIn(literal.mem, literal.ret)

\* resolveHeaders for a legal method: the literal of lines 31-36 is a new
\* object, and it is the object cleanupHeaders works on
resolveHeadersIn(mem, method, defaults, extras) ==
    LET literal == alloc(mem, headerLayers(mem, method, defaults, extras))
    IN  cleanupHeadersIn(literal.mem, literal.ret)

\* resolveConfig when it does not throw: a new empty object, or the literal
\* of lines 44-48 with the object resolveHeaders returned as its headers
resolveConfigIn(mem, method, defaults, extras) ==
    IF isEmptyIn(mem, defaults) /\ isEmptyIn(mem, extras)
    THEN alloc(mem, EmptyMap)
    ELSE LET h == resolveHeadersIn(mem, method,
                                   getProp(mem, defaults, "headers"),
                                   getProp(mem, extras, "headers"))
         IN  alloc(h.mem, Merge(Merge(propsOf(mem, defaults), propsOf(mem, extras)),
                                [headers |-> h.ret]))

\* the numbers an object of path parameters or a payload holds
numsOf(mem, v) == [k \in DOMAIN propsOf(mem, v) |-> propsOf(mem, v)[k].n]

\* a payload as qs.stringify and the truth test of line 92 see it
argOf(mem, v) ==
    CASE v.tag = "ref" -> Obj(numsOf(mem, v))
      [] v.tag = "number" -> Num(v.n)
      [] OTHER -> Undef

HArg(args, k) == IF Len(args) >= k THEN args[k] ELSE HUndef

\* the function bindModuleMethod returns, applied to (url, args, config) for
\* a legal method: the parameter `config` is bound to the literal of lines
\* 87-91, a new object, and that object is written to and handed over
bindModuleMethodIn(mem, method, defaultConfig, url, args, config) ==
    LET shouldSendData == method = "post" \/ method = "put"
        resolved == resolveConfigIn(mem, method, defaultConfig, config)
        literal == alloc(resolved.mem,
                         Merge([url |-> HUrl(url), method |-> HStr(method)],
                               propsOf(resolved.mem, resolved.ret)))
        own == literal.ret
    IN  IF ~Truthy(argOf(mem, args)) THEN literal
        ELSE IF shouldSendData
        THEN [mem |-> setProp(literal.mem, own, "data", args), ret |-> own]
        ELSE [mem |-> setProp(literal.mem, own, "url",
                              HUrl(TemplateStr(getProp(literal.mem, own, "url").u)
                                   \o <<"?">> \o qsStringify(argOf(mem, args)))),
              ret |-> own]

\* one call of a bound method on the memory: bindApis' inner function
\* (the arguments are sliced into new arrays, params is read) and the
\* function of bindModuleMethod; rest is what is passed on after the url
boundCallIn(mem, closure, defaultConfig, args) ==
    IF Len(args) > 0 /\ closure.url = UndefinedStr
    THEN [outcome |-> "throw", mem |-> mem, req |-> HUndef, closure |-> closure,
          rest |-> args]
    ELSE LET takes == /\ Len(args) > 0
                      /\ Contains(closure.url, <<"/", ":">>)
                      /\ args[1].tag = "ref"
             url == IF takes
                    THEN mapParamsToPathVariables(closure.url, numsOf(mem, args[1]))
                    ELSE closure.url
             rest == IF takes THEN Tail(args) ELSE args
         IN  IF closure.method = UndefinedMethod
             THEN [outcome |-> "throw", mem |-> mem, req |-> HUndef,
                   closure |-> [url |-> url, method |-> closure.method],
                   rest |-> rest]
             ELSE LET method == toLowerCase(closure.method)
                      after == [url |-> url, method |-> method]
                  IN  IF ~isLegalMethod(method)
                         /\ ~(isEmptyIn(mem, defaultConfig)
                              /\ isEmptyIn(mem, HArg(rest, 2)))
                      THEN \* thrown by resolveHeaders inside the executor
                           [outcome |-> "reject", mem |-> mem, req |-> HUndef,
                            closure |-> after, rest |-> rest]
                      ELSE LET r == bindModuleMethodIn(mem, method, defaultConfig,
                                                       url, HArg(rest, 1),
                                                       HArg(rest, 2))
                           IN  [outcome |-> "request", mem |-> r.mem,
                                req |-> r.ret, closure |-> after,
                                rest |-> rest]

\* the objects that exist before the instance is made: defaultOptions and
\* its headers, and the objects the caller passes
defaultOptionsAt == HRef(2)
optionsAt == HRef(5)
paramsAt == HRef(6)
payloadAt == HRef(7)
queryAt == HRef(8)
overrideAt == HRef(10)

InitCells ==
    << [k \in {"Content-Type"} |-> HStr("application/json")],
       [headers |-> HRef(1), xsrfCookieName |-> HStr("csrftoken")],
       [B |-> HStr("c")],
       [A |-> HStr("m"), common |-> HRef(3)],
       [headers |-> HRef(4)],
       [id |-> HNum(7)],
       [name |-> HNum(1)],
       [x |-> HNum(1)],
       [C |-> HStr("3"), A |-> HStr("o")],
       [headers |-> HRef(9), timeout |-> HNum(1)] >>

\* the objects read back as the values of the other sections
RECURSIVE loadHeaders(_, _)
loadHeaders(mem, v) ==
    [k \in DOMAIN propsOf(mem, v) |->
        IF propsOf(mem, v)[k].tag = "ref"
        THEN MV(loadHeaders(mem, propsOf(mem, v)[k]))
        ELSE SV(propsOf(mem, v)[k].s)]

loadConfig(mem, v) ==
    [k \in DOMAIN propsOf(mem, v) |->
        CASE k = "headers" -> loadHeaders(mem, propsOf(mem, v)[k])
          [] k = "data" -> argOf(mem, propsOf(mem, v)[k])
          [] k = "url" -> propsOf(mem, v)[k].u
          [] k = "method" -> propsOf(mem, v)[k].s
          [] OTHER -> propsOf(mem, v)[k].n]

loadArg(mem, v) == IF v.tag = "ref" THEN Obj(loadConfig(mem, v)) ELSE argOf(mem, v)

NoSent == [outcome |-> "none", name |-> "", args |-> <<>>, rest |-> <<>>,
           url |-> <<>>, method |-> "", req |-> HUndef, cells |-> 0]

\* new Class(options): the constructor makes the headers object and the
\* default config object, then bindApis binds the definitions
HeapConstruct(options) ==
    /\ made
    /\ heap.status = "none"
    /\ LET bad == FirstInvalid(apiDefs, 1)
           headers == alloc(heap.mem,
                            Merge(propsOf(heap.mem,
                                          getProp(heap.mem, defaultOptionsAt, "headers")),
                                  propsOf(heap.mem,
                                          getProp(heap.mem, options, "headers"))))
           config == alloc(headers.mem, [headers |-> headers.ret])
       IN  heap' = IF bad # ""
                   THEN [heap EXCEPT !.status = "failed", !.mem = config.mem]
                   ELSE [heap EXCEPT
                            !.status = "ok",
                            !.mem = config.mem,
                            !.options = options,
                            !.defaultConfig = config.ret,
                            !.bound = [n \in OpNames |->
                                         [url |-> defUrl(apiDefs[n]),
                                          method |-> defMethod(apiDefs[n])]]]
    /\ UNCHANGED <<authored, apiDefs, made, inst, last, flight, guard, build>>

\* instance[name](...args) on the memory, up to the return of the promise:
\* the request object is handed to the transport, which holds it until it
\* settles the request
HeapCall(name, args) ==
    /\ heap.status = "ok"
    /\ Len(heap.sent) < MaxFlight
    /\ LET r == boundCallIn(heap.mem, heap.bound[name], heap.defaultConfig, args)
       IN  heap' = [heap EXCEPT
                       !.mem = r.mem,
                       !.bound[name] = r.closure,
                       !.sent = IF r.outcome = "request"
                                THEN Append(heap.sent, [req |-> r.req,
                                                        state |-> "pending"])
                                ELSE heap.sent,
                       !.last = [outcome |-> r.outcome, name |-> name,
                                 args |-> args,
                                 rest |-> r.rest,
                                 url |-> r.closure.url,
                                 method |-> r.closure.method,
                                 req |-> r.req,
                                 cells |-> Len(heap.mem)]]
    /\ UNCHANGED <<authored, apiDefs, made, inst, last, flight, guard, build>>

\* the transport settles the k-th request it holds; the handlers of lines
\* 98-99 pass the response or the error on
HeapSettle(k, ok) ==
    /\ heap.status = "ok"
    /\ k \in 1..Len(heap.sent)
    /\ heap.sent[k].state = "pending"
    /\ heap' = [heap EXCEPT !.sent[k].state =
                               IF ok THEN "resolved" ELSE "rejected"]
    /\ UNCHANGED <<authored, apiDefs, made, inst, last, flight, guard, build>>

HeapOptions == {optionsAt, HUndef}

HeapArgs(def) ==
    IF hasPlaceholder(authoredUrl(def))
    THEN {<<paramsAt, payloadAt>>, <<paramsAt, payloadAt, overrideAt>>}
    ELSE {<<>>, <<queryAt, overrideAt>>, <<HUndef, overrideAt>>}

InitHeap ==
    /\ authored \in FlightTables
    /\ apiDefs = authored
    /\ made = FALSE
    /\ inst = [i \in Instances |-> NoInstance]
    /\ last = Idle
    /\ flight = <<>>
    /\ guard = NoGuard
    /\ build = NoBuild
    /\ heap = [status |-> "none", mem |-> InitCells, options |-> HUndef,
               defaultConfig |-> HUndef, bound |-> EmptyMap, sent |-> <<>>,
               last |-> NoSent]

NextHeap ==
    \/ MakeApiModule
    \/ \E o \in HeapOptions : HeapConstruct(o)
    \/ \E n \in OpNames : \E a \in HeapArgs(authored[n]) : HeapCall(n, a)
    \/ \E k \in Slots, ok \in BOOLEAN : HeapSettle(k, ok)

SpecHeap == InitHeap /\ [][NextHeap]_vars

\* the options the instance was made with, as a value
heapOptions ==
    IF heap.options.tag = "ref" THEN loadConfig(InitCells, heap.options)
    ELSE EmptyMap

\* the objects of the caller, and defaultOptions, hold what they held when
\* they were made, and the default config of the instance is the one its
\* constructor built
inputsHold ==
    /\ \A a \in 1..Len(InitCells) : heap.mem[a] = InitCells[a]
    /\ heap.status = "ok" =>
          loadConfig(heap.mem, heap.defaultConfig) = makeDefaultConfig(heapOptions)

\* the request of the last call is an object of its own: it and its headers
\* were made by that call, and it holds the config the call resolves to
ownConfig ==
    heap.last.outcome = "request" =>
       /\ heap.last.req.a > heap.last.cells
       /\ getProp(heap.mem, heap.last.req, "headers").a > heap.last.cells
       /\ \A k \in 1..Len(heap.sent) :
             \A j \in 1..Len(heap.sent) :
                j # k =>
                   /\ heap.sent[j].req # heap.sent[k].req
                   /\ getProp(heap.mem, heap.sent[j].req, "headers")
                         # getProp(heap.mem, heap.sent[k].req, "headers")
       /\ loadConfig(heap.mem, heap.last.req)
             = requestConfig(heap.last.url, heap.last.method,
                             makeDefaultConfig(heapOptions),
                             loadArg(heap.mem, HArg(heap.last.rest, 1)),
                             loadArg(heap.mem, HArg(heap.last.rest, 2)))

\* a step writes to no object that exists: each cell holds after the step
\* what it held before (the objects of the caller, the default config and
\* its headers, the requests of the earlier calls)
writesNewOnly ==
    \A a \in 1..Len(heap.mem) :
       a \in 1..Len(heap'.mem) /\ heap'.mem[a] = heap.mem[a]

\* C17: no call of a bound method modifies the default config of the
\* instance or the params, payload or override config the caller passed:
\* each call builds a config object of its own, and after any sequence of
\* calls, sequential or overlapping, the default config is the one built at
\* construction.
C17_CallsLeaveInputs ==
    /\ [](inputsHold /\ ownConfig)
    /\ [][writesNewOnly]_vars

\* C17 witness: two calls with their requests pending, the last with an
\* override config that carries headers, on an instance whose default
\* headers hold the sub-map `common`; the request of the last call has its
\* own headers, without `common`, and its data is the caller's payload
C17_Witness ==
    /\ heap.status = "ok" /\ heap.options = optionsAt
    /\ Len(heap.sent) >= 2
    /\ heap.sent[1].state = "pending" /\ heap.sent[2].state = "pending"
    /\ heap.last.outcome = "request"
    /\ heap.last.args = <<paramsAt, payloadAt, overrideAt>>
    /\ "common" \in DOMAIN propsOf(heap.mem,
                                   getProp(heap.mem, heap.defaultConfig, "headers"))
    /\ "common" \notin DOMAIN propsOf(heap.mem,
                                      getProp(heap.mem, heap.last.req, "headers"))
    /\ getProp(heap.mem, heap.last.req, "data") = payloadAt

(***************************************************************************)
(* The caller's definition table (SpecDefs)                                *)
(***************************************************************************)
\* C18 (as amended): makeApiModule normalises the caller's table in place.
\* Before the call the table is as the caller wrote it; after it, the same
\* table holds the canonical object of every entry written as a string or a
\* pair, and the other entries as they were.
C18_NormalizedInPlace ==
    /\ ~made => apiDefs = authored
    /\ made =>
          /\ apiDefs = normalizeTable(authored)
          /\ \A n \in OpNames :
                IF authored[n].shape \in {"string", "array"}
                THEN /\ apiDefs[n].shape = "object"
                     /\ DOMAIN apiDefs[n].obj = {"method", "url"}
                ELSE apiDefs[n] = authored[n]

\* C18 witness: after makeApiModule the caller's table holds objects where
\* a string and a pair were written
C18_Witness ==
    /\ made
    /\ authored["getTag"] = StrDef(TagsId)
    /\ authored["updateTag"] = PairDef(<<"put", Tags>>)
    /\ apiDefs["getTag"] = ObjDef([method |-> "GET", url |-> TagsId])
    /\ apiDefs["updateTag"] = ObjDef([method |-> "put", url |-> Tags])

\* C18 as stated: makeApiModule leaves the caller's table as it was passed.
C18_TableUntouched == made => apiDefs = authored

(***************************************************************************)
(* The two readings of the positional arguments (Spec)                     *)
(***************************************************************************)
\* the argument the calling convention makes the config of the call
configArg(def, args) == IF readsParams(def, args) THEN Arg(args, 3) ELSE Arg(args, 2)

\* C19: each call reads its arguments in one of two ways.  When the
\* definition's template has a placeholder and the first argument is a
\* plain mapping, the arguments are (params, payload, config); otherwise
\* they are (payload, config) and a third argument is ignored: the request
\* is the one built from the url, the payload and the config so read.
C19_ArgumentPaths ==
    IsCall =>
       /\ last.outcome = "request"
       /\ last.req = requestConfig(resolvedUrl(LastDef, last.args), LastMethod,
                                   inst[last.inst].defaultConfig,
                                   payloadOf(LastDef, last.args),
                                   configArg(LastDef, last.args))

\* the names of the placeholders of a url template
placeholderKeys(u) ==
    {SubSeq(u, i + 1, RunEnd(u, i + 1)) :
        i \in {j \in 1..(Len(u) - 1) : u[j] = ":" /\ u[j + 1] \in WordChars}}

\* the params mapping has no key of that name
lacksKey(params, key) ==
    ~\E k \in DOMAIN params : k \in DOMAIN KeyChars /\ KeyChars[k] = key

\* the template with the placeholders the params lack replaced by the text
\* `undefined` and the others by the value of their key
RECURSIVE withUndefined(_, _, _)
withUndefined(u, i, params) ==
    IF i > Len(u) THEN <<>>
    ELSE IF u[i] = ":" /\ i + 1 <= Len(u) /\ u[i + 1] \in WordChars
         THEN LET j == RunEnd(u, i + 1)
                  key == SubSeq(u, i + 1, j)
              IN  (IF lacksKey(params, key) THEN UndefinedText
                   ELSE ParamText(params, key))
                  \o withUndefined(u, j + 1, params)
         ELSE <<u[i]>> \o withUndefined(u, i + 1, params)

\* C20: when the params of a call lack a key that a placeholder of the
\* definition's template names, no error is raised: the request is handed
\* to the transport with the text `undefined` in place of that placeholder
\* (the override sets no url of its own).
C20_MissingParamUndefined ==
    (/\ IsCall /\ readsParams(LastDef, last.args)
     /\ \E key \in placeholderKeys(authoredUrl(LastDef)) :
           lacksKey(last.args[1].obj, key)
     /\ "url" \notin DOMAIN configOf(LastDef, last.args)) =>
        /\ last.outcome = "request"
        /\ PathOf(last.req.url) =
              withUndefined(authoredUrl(LastDef), 1, last.args[1].obj)
        /\ Contains(PathOf(last.req.url), UndefinedText)

\* the first argument of a call is present and is not a plain mapping
firstArgNotObject(args) ==
    Len(args) > 0 /\ args[1].kind # "undefined" /\ ~isObject(args[1])

\* C21: when the definition's template contains `/:` and the first argument
\* of the call is not a plain mapping, no error is raised, the url handed to
\* the transport is the template with its placeholder unsubstituted, and the
\* first argument is the payload and the second the config: the request is
\* the one built from the template, that payload and that config (the
\* override sets no url of its own).
C21_NonObjectFirstArg ==
    (/\ IsCall
     /\ Contains(authoredUrl(LastDef), <<"/", ":">>)
     /\ firstArgNotObject(last.args)
     /\ "url" \notin DOMAIN ConfigOf(Arg(last.args, 2))) =>
        /\ last.outcome = "request"
        /\ PathOf(last.req.url) = authoredUrl(LastDef)
        /\ last.req = requestConfig(authoredUrl(LastDef), LastMethod,
                                    inst[last.inst].defaultConfig,
                                    last.args[1], Arg(last.args, 2))

(***************************************************************************)
(* SpecIllegal: a table with one operation whose method is not an allowed  *)
(* one (or is missing) beside an operation with an allowed method          *)
(***************************************************************************)
IllegalDefs ==
    {PairDef(<<"BOGUS", Tags>>), PairDef(<<"BOGUS", TagsId>>),
     ObjDef([method |-> "BOGUS", url |-> TagsId]), ObjDef([url |-> TagsId])}

AllowedDefs == {StrDef(TagsId), PairDef(<<"put", Tags>>)}

IllegalTables ==
    {Table(a, b) : a \in IllegalDefs, b \in AllowedDefs}
    \cup {Table(b, a) : a \in IllegalDefs, b \in AllowedDefs}

IllegalArgs ==
    {<<>>, <<X1>>, <<Five>>, <<P(7)>>, <<P(8), N1>>, <<X1, CfgTimeout>>}

InitIllegal == InitWith(IllegalTables)

NextIllegal ==
    \/ MakeApiModule
    \/ \E o \in BindOptions : Construct(1, o)
    \/ \E n \in OpNames, a \in IllegalArgs : Call(1, n, a)

SpecIllegal == InitIllegal /\ [][NextIllegal]_vars

\* the method a definition names is one of the allowed set, in any case
methodAllowed(def) ==
    /\ authoredMethod(def) # UndefinedMethod
    /\ toLowerCase(authoredMethod(def)) \in
          {"get", "post", "put", "delete", "patch", "options", "head"}

\* the calls of operation n so far made no request of the transport and
\* left no promise other than rejected ones
noRequestOf(n) ==
    \A k \in 1..Len(flight) :
        flight[k].name = n => flight[k].sent = 0 /\ flight[k].p = "rejected"

\* a step that is a call of operation n on the constructed instance
isCallOf(n) ==
    /\ inst[1].status = "ok" /\ inst'[1].status = "ok"
    /\ last'.act = "call" /\ last'.name = n

\* C26: when a definition's method is not in the allowed set, every call of
\* that operation fails, by throwing or by a rejected promise, and no
\* request of it reaches the transport; the calls of it leave the bound
\* methods of the other operations and the instance's default config as
\* they were, and every call of an operation with an allowed method issues
\* its request with that method.
C26_IllegalMethodFails ==
    /\ [](IsCall =>
            IF methodAllowed(LastDef)
            THEN /\ last.outcome = "request"
                 /\ last.req.method = LastMethod
                 /\ flight[Len(flight)] = pendingOf(last.name, "request")
            ELSE /\ last.outcome \in {"throw", "reject"}
                 /\ last.req = NoRequest
                 /\ noRequestOf(last.name))
    /\ [][\A n \in OpNames :
             (isCallOf(n) /\ ~methodAllowed(authored[n])) =>
                /\ inst'[1].defaultConfig = inst[1].defaultConfig
                /\ \A m \in OpNames \ {n} :
                      inst'[1].bound[m] = inst[1].bound[m]]_vars

\* C26 witness: after a rejected call of the operation with the illegal
\* method, which made no request, the other operation of the same instance
\* issued its request
C26_Witness ==
    /\ authored["getTag"] = PairDef(<<"BOGUS", TagsId>>)
    /\ authored["updateTag"] = PairDef(<<"put", Tags>>)
    /\ Len(flight) = 2
    /\ flight[1] = pendingOf("getTag", "reject")
    /\ flight[2] = pendingOf("updateTag", "request")
    /\ IsCall /\ last.name = "updateTag" /\ last.outcome = "request"
    /\ last.args = <<X1>>
    /\ last.req.method = "put" /\ last.req.url = Tags
    /\ last.req.data = X1

(***************************************************************************)
(* SpecOverride: calls whose per-call config carries keys of the request   *)
(* itself (url, method, data)                                              *)
(***************************************************************************)
CfgData == Obj([data |-> N1])

OverrideTables ==
    { Table(StrDef(Tags), PairDef(<<"put", Tags>>)),
      Table(PairDef(<<"GET", TagsId>>), PairDef(<<"POST", TagsId>>)) }

OverrideConfigs == {CfgTimeout, CfgUrl, CfgMethod, CfgData}

OverrideArgs(def) ==
    IF hasPlaceholder(authoredUrl(def))
    THEN {<<P(7)>>} \cup {<<P(7), X1, c>> : c \in OverrideConfigs}
         \cup {<<P(7), Undef, c>> : c \in OverrideConfigs}
    ELSE {<<>>} \cup {<<X1, c>> : c \in OverrideConfigs}
         \cup {<<Undef, c>> : c \in OverrideConfigs}

InitOverride == InitWith(OverrideTables)

NextOverride ==
    \/ MakeApiModule
    \/ Construct(1, EmptyMap)
    \/ \E n \in OpNames : \E a \in OverrideArgs(authored[n]) : Call(1, n, a)

SpecOverride == InitOverride /\ [][NextOverride]_vars

\* C24: for every call the method of the request handed to the transport is
\* the definition's method, lower-cased, and its url is the resolved
\* template, followed by `?` and the query string when a payload goes into
\* the url, whatever keys the per-call config carries; and a request holds
\* a body only when its method is post or put.
C24_MethodAndUrlFixed ==
    IsRequest =>
        /\ last.req.method = LastMethod
        /\ last.req.url =
              IF ~SendsBody /\ Truthy(payloadOf(LastDef, last.args))
              THEN resolvedUrl(LastDef, last.args) \o <<"?">>
                   \o qsStringify(payloadOf(LastDef, last.args))
              ELSE resolvedUrl(LastDef, last.args)
        /\ "data" \in DOMAIN last.req => last.req.method \in {"post", "put"}

(***************************************************************************)
(* SpecInstances: several instances of classes made from one table, each   *)
(* constructed with headers of its own                                     *)
(***************************************************************************)
Peers == 1..(MaxInstances + 1)

PeerTables == {Table(StrDef(TagsId), PairDef(<<"put", Tags>>))}

PeerOptions == {[headers |-> [A |-> SV("1")]], [headers |-> [B |-> SV("2")]]}

PeerArgs(def) ==
    IF hasPlaceholder(authoredUrl(def))
    THEN {<<P(7)>>, <<P(8)>>, <<Five>>}
    ELSE {<<>>, <<X1, CfgHeaders>>}

InitInstances ==
    /\ authored \in PeerTables
    /\ apiDefs = authored
    /\ made = FALSE
    /\ inst = [i \in Peers |-> NoInstance]
    /\ last = Idle
    /\ flight = <<>>
    /\ guard = NoGuard
    /\ build = NoBuild
    /\ heap = NoHeap

NextInstances ==
    \/ MakeApiModule
    \/ \E i \in Peers, o \in PeerOptions : Construct(i, o)
    \/ \E i \in Peers, n \in OpNames :
         \E a \in PeerArgs(authored[n]) : Call(i, n, a)

SpecInstances == InitInstances /\ [][NextInstances]_vars

\* the headers the constructor of instance i kept: the library's, then those
\* of the options it was constructed with
ownHeaders(i) == Merge(DefaultOptionsHeaders, HeadersOf(inst[i].options))

\* C25: instances are isolated.  The headers of every request issued
\* through an instance are resolved from that instance's own default
\* headers and the call's override only, and a step that constructs an
\* instance or calls a method of it, a path-parameter call included, leaves
\* what every other instance holds (its default config and the closures of
\* its bound methods, from which its later requests are built) as it was.
C25_InstancesIsolated ==
    /\ [](IsRequest =>
            last.req.headers =
               resolveHeaders(LastMethod, ownHeaders(last.inst),
                              HeadersOf(configOf(LastDef, last.args))))
    /\ [][\A i \in Peers :
             inst'[i] # inst[i] => \A j \in Peers \ {i} : inst'[j] = inst[j]]_vars
    /\ [][\A j \in Peers :
             (last'.act \in {"new", "call"} /\ last'.inst # j) =>
                inst'[j] = inst[j]]_vars

\* C25 witness: after a path-parameter call through instance 1, constructed
\* with header A, instance 2, constructed with header B, issues the request
\* of its own params with its own headers
C25_Witness ==
    /\ inst[1].status = "ok" /\ inst[2].status = "ok"
    /\ "A" \in DOMAIN inst[1].options.headers
    /\ "B" \in DOMAIN inst[2].options.headers
    /\ inst[1].bound["getTag"].url = <<"/", "t", "/", "7">>
    /\ IsRequest /\ last.inst = 2 /\ last.name = "getTag"
    /\ last.args = <<P(8)>>
    /\ last.req.url = <<"/", "t", "/", "8">>
    /\ "B" \in DOMAIN last.req.headers
    /\ "A" \notin DOMAIN last.req.headers

(***************************************************************************)
(* The router guard of the admin page (router/index.js).                   *)
(* guard.api      what the page's global localStorage offers: "web", the   *)
(*                Web Storage object of a browser (getItem, setItem,       *)
(*                clear; no get or set), or "getset", an object that also  *)
(*                has get and set                                          *)
(* guard.cookie   the value of the `user` cookie, "" when there is none    *)
(* guard.storage  the items of local storage                               *)
(* guard.now      the clock, in minutes                                    *)
(* guard.navs     the navigations: the route, what next() was called with  *)
(*                and whether the profile request was issued               *)
(* guard.lastOk, guard.loggedOut (ghost): the time of the last successful  *)
(*                profile check and whether logout ran since               *)
(***************************************************************************)
\* the number of navigations, and of logouts, of a behaviour
MaxNavs == 2
\* the last minute of the clock
MaxTime == 12

\* 10 * 60 * 1000 milliseconds, in minutes
CheckPeriod == 10

LoginName == <<"l", "o", "g", "i", "n">>
ErrorPrefix == <<"e", "r", "r", "o", "r", "-">>

Routes ==
    { [name |-> LoginName, fullPath |-> "/login"],
      [name |-> ErrorPrefix \o <<"4", "0", "4">>, fullPath |-> "/404"],
      [name |-> <<"h", "o", "m", "e">>, fullPath |-> "/home?tab=1"],
      [name |-> <<"e", "r", "r", "o", "r", "s">>, fullPath |-> "/errors"] }

\* /error-.*/.test(name)
matchesError(name) == Contains(name, ErrorPrefix)

\* the routes the guard lets through without authentication
isOpenRoute(to) == matchesError(to.name) \/ to.name = LoginName

\* Cookies.get('user'): the value of the cookie, undefined when there is none
CookiesGet(g) == IF g.cookie = "" THEN "<undefined>" ELSE g.cookie

\* localStorage.get and localStorage.set are not functions of the storage
\* object: calling them throws a TypeError
storageThrows(g) == g.api = "web"

\* localStorage.get('lastCheck') where get exists: 0 stands for no item
storageGet(g, key) == IF key \in DOMAIN g.storage THEN g.storage[key] ELSE 0

\* the profile request of commonApi.getUserProfile()
ProfileUrl ==
    <<"/", "a", "p", "i", "/", "v", "1", "/", "c", "o", "m", "m", "o", "n",
      "/", "u", "s", "e", "r", "s", "/", "p", "r", "o", "f", "i", "l", "e">>

profileCall ==
    boundCall([url |-> defUrl(normalizeDef(StrDef(ProfileUrl))),
               method |-> defMethod(normalizeDef(StrDef(ProfileUrl)))],
              makeDefaultConfig(EmptyMap), <<>>)

\* checkLogin() where it returns
checkLogin(g) ==
    LET isLogin == CookiesGet(g) # "<null>"
        lastCheck == storageGet(g, "lastCheck")
    IN  isLogin /\ lastCheck # 0 /\ g.now - lastCheck < CheckPeriod

NoNav ==
    [to |-> [name |-> <<>>, fullPath |-> ""], at |-> 0, lastOk |-> 0,
     loggedOut |-> FALSE, asked |-> FALSE, answer |-> "none",
     next |-> "none", redirect |-> "", did |-> {}]

\* router.beforeEach((to, from, next) => ...), up to its return
Navigate(to) ==
    /\ Len(guard.navs) < MaxNavs
    /\ LET g == guard
           nav == [NoNav EXCEPT !.to = to, !.at = g.now, !.lastOk = g.lastOk,
                                !.loggedOut = g.loggedOut]
           done ==
              IF storageThrows(g)
              THEN [nav EXCEPT !.next = "throw"]
              ELSE IF checkLogin(g) \/ isOpenRoute(to)
              THEN [nav EXCEPT !.next = "proceed"]
              ELSE [nav EXCEPT !.asked = profileCall.outcome = "request"]
       IN  guard' = [guard EXCEPT !.navs = Append(g.navs, done)]
    /\ UNCHANGED <<authored, apiDefs, made, inst, last, flight, build, heap>>

\* the handlers of the profile request of navigation k run: the response
\* carries code 'ok' or another code, or the request failed
ProfileAnswer(k, answer) ==
    /\ k \in 1..Len(guard.navs)
    /\ guard.navs[k].asked /\ guard.navs[k].answer = "none"
    /\ LET g == guard
           nav == [g.navs[k] EXCEPT !.answer = answer]
           toLogin == [nav EXCEPT !.next = "login",
                                  !.redirect = nav.to.fullPath]
       IN  guard' =
             CASE answer = "ok" /\ ~storageThrows(g) ->
                    [g EXCEPT !.cookie = "bob",
                              !.storage = Merge(g.storage, [lastCheck |-> g.now]),
                              !.lastOk = g.now, !.loggedOut = FALSE,
                              !.navs[k] = [nav EXCEPT
                                              !.next = "proceed",
                                              !.did = {"cookie", "lastCheck"}]]
               [] answer = "ok" /\ storageThrows(g) ->
                    \* localStorage.set throws after Cookies.set: the catch
                    \* handler redirects
                    [g EXCEPT !.cookie = "bob",
                              !.navs[k] = [toLogin EXCEPT !.did = {"cookie"}]]
               [] answer = "denied" ->
                    [g EXCEPT !.storage = EmptyMap,
                              !.navs[k] = [toLogin EXCEPT !.did = {"clear"}]]
               [] OTHER ->
                    [g EXCEPT !.navs[k] = toLogin]
    /\ UNCHANGED <<authored, apiDefs, made, inst, last, flight, build, heap>>

\* user.actions.logout: the cookie is removed, local storage cleared and
\* commonApi.logoutUser() called
Logout ==
    /\ guard.logouts < MaxNavs
    /\ guard' = [guard EXCEPT !.cookie = "", !.storage = EmptyMap,
                              !.logouts = guard.logouts + 1,
                              !.loggedOut = TRUE]
    /\ UNCHANGED <<authored, apiDefs, made, inst, last, flight, build, heap>>

\* a minute passes
Tick ==
    /\ guard.now < MaxTime
    /\ guard' = [guard EXCEPT !.now = guard.now + 1]
    /\ UNCHANGED <<authored, apiDefs, made, inst, last, flight, build, heap>>

StorageApis == {"web", "getset"}

InitGuard ==
    /\ authored \in FlightTables
    /\ apiDefs = authored
    /\ made = FALSE
    /\ inst = [i \in Instances |-> NoInstance]
    /\ last = Idle
    /\ flight = <<>>
    /\ build = NoBuild
    /\ heap = NoHeap
    /\ \E api \in StorageApis, items \in {EmptyMap, [theme |-> 1]} :
          guard = [NoGuard EXCEPT !.api = api, !.storage = items, !.now = 1]

NextGuard ==
    \/ \E to \in Routes : Navigate(to)
    \/ \E k \in 1..MaxNavs, answer \in {"ok", "denied", "fail"} :
         ProfileAnswer(k, answer)
    \/ Logout
    \/ Tick

SpecGuard == InitGuard /\ [][NextGuard]_vars

\* the same guard on a page whose localStorage offers get and set
SpecGuardStore ==
    /\ InitGuard /\ guard.api = "getset"
    /\ [][NextGuard]_vars

Navs == 1..Len(guard.navs)

\* C27: a navigation to the route named login, or to a route whose name
\* matches error-.*, proceeds to the requested route and issues no profile
\* request, whatever the cookie and local storage hold.
C27_OpenRoutesProceed ==
    \A k \in Navs :
        isOpenRoute(guard.navs[k].to) =>
            guard.navs[k].next = "proceed" /\ ~guard.navs[k].asked

\* navigation k goes to a route that needs authentication
isProtected(k) == ~isOpenRoute(guard.navs[k].to)

\* when navigation k started, the last successful profile check was less
\* than the period ago and logout had not run since
recentlyChecked(k) ==
    /\ guard.navs[k].lastOk > 0
    /\ ~guard.navs[k].loggedOut
    /\ guard.navs[k].at - guard.navs[k].lastOk < CheckPeriod

\* C28: a navigation to a protected route within 10 minutes of the last
\* successful profile check proceeds without a profile request; once 10
\* minutes have passed since that check, or after logout, a navigation to a
\* protected route issues a profile request, and enters the route only on
\* its answer.
C28_RecheckAfterPeriod ==
    \A k \in Navs :
        isProtected(k) =>
            /\ recentlyChecked(k) =>
                  guard.navs[k].next = "proceed" /\ ~guard.navs[k].asked
            /\ (guard.navs[k].loggedOut
                   \/ (guard.navs[k].lastOk > 0
                         /\ guard.navs[k].at - guard.navs[k].lastOk >= CheckPeriod)) =>
                  /\ guard.navs[k].asked
                  /\ guard.navs[k].next = "proceed" => guard.navs[k].answer = "ok"

NullSetting == [kind |-> "null", s |-> "", o |-> EmptyMap]
FalseSetting == [kind |-> "false", s |-> "", o |-> EmptyMap]
StrSetting(s) == [kind |-> "string", s |-> s, o |-> EmptyMap]
ObjSetting(o) == [kind |-> "object", s |-> "", o |-> o]

\* `value || root`
settingTruthy(v) == v.kind \in {"object"} \/ (v.kind = "string" /\ v.s # "")

\* parent.hasOwnProperty(prop), for the keys of the settings
hasOwnProperty(parent, prop) == parent.kind = "object" /\ prop \in DOMAIN parent.o

\* _path.split('.')
RECURSIVE splitDots(_, _)
splitDots(path, word) ==
    IF path = <<>> THEN <<word>>
    ELSE IF Head(path) = "." THEN <<word>> \o splitDots(Tail(path), <<>>)
    ELSE splitDots(Tail(path), Append(word, Head(path)))

\* the loop of `search`, from property idx on with the value found so far
RECURSIVE searchFrom(_, _, _, _)
searchFrom(root, properties, idx, value) ==
    IF idx > Len(properties) THEN value
    ELSE LET parent == IF settingTruthy(value) THEN value ELSE root
         IN  IF ~hasOwnProperty(parent, properties[idx]) THEN value
             ELSE searchFrom(root, properties, idx + 1, parent.o[properties[idx]])

search(root, properties) == searchFrom(root, properties, 1, NullSetting)

\* buildConfigs.get(_path) with process.env.NODE_ENV = env
getConfig(cfg, env, path) ==
    LET config == IF env = "production" THEN cfg.build ELSE cfg.dev
        properties == splitDots(path, <<>>)
        value == search(config, properties)
    IN  IF value = NullSetting THEN search(cfg.common, properties) ELSE value

kDevtool == <<"d", "e", "v", "t", "o", "o", "l">>
kProxy == <<"p", "r", "o", "x", "y">>
kPort == <<"p", "o", "r", "t">>
kTarget == <<"t", "a", "r", "g", "e", "t">>
kAssetsRoot == <<"a", "s", "s", "e", "t", "s", "R", "o", "o", "t">>

Settings(pairs) == [k \in {p[1] : p \in pairs} |-> (CHOOSE p \in pairs : p[1] = k)[2]]

\* the configuration makeBuildConfigs returns (the settings the lookups
\* below read: assetsRoot is the dist directory, port the default 8080), and
\* the variants its comments name: devtool set to false in a section to
\* disable the source map (line 33), proxy entries added (line 57), and a
\* devtool also set in the common section
BuildConfigs ==
    { [common |-> ObjSetting(Settings({<<kAssetsRoot, StrSetting("dist")>>} \cup shared)),
       build |-> ObjSetting(Settings({<<kDevtool, buildTool>>})),
       dev |-> ObjSetting(Settings({<<kDevtool, devTool>>,
                                    <<kPort, StrSetting("8080")>>,
                                    <<kProxy, ObjSetting(proxy)>>}))] :
        buildTool \in {StrSetting("#source-map"), FalseSetting},
        devTool \in {StrSetting("#cheap-module-eval-source-map"), FalseSetting},
        proxy \in {EmptyMap, Settings({<<kTarget, StrSetting("srv")>>})},
        shared \in {{}, {<<kDevtool, StrSetting("#eval")>>}} }

\* the configuration of the source as written
SourceBuildConfig ==
    [common |-> ObjSetting(Settings({<<kAssetsRoot, StrSetting("dist")>>})),
     build |-> ObjSetting(Settings({<<kDevtool, StrSetting("#source-map")>>})),
     dev |-> ObjSetting(Settings({<<kDevtool, StrSetting("#cheap-module-eval-source-map")>>,
                                  <<kPort, StrSetting("8080")>>,
                                  <<kProxy, ObjSetting(EmptyMap)>>}))]

Dotted(a, b) == a \o <<".">> \o b

BuildPaths ==
    {kDevtool, kProxy, kPort, kTarget, kAssetsRoot,
     Dotted(kProxy, kTarget), Dotted(kProxy, kPort), Dotted(kDevtool, kPort),
     Dotted(kAssetsRoot, kTarget), Dotted(kTarget, kPort)}

NodeEnvs == {"production", "development"}

\* getConfig(_path) of module.exports, after NODE_ENV was set
GetConfig(env, path) ==
    /\ build.act \in {"made", "get"}
    /\ build' = [act |-> "get", cfg |-> build.cfg, env |-> env, path |-> path,
                 value |-> getConfig(build.cfg, env, path)]
    /\ UNCHANGED <<authored, apiDefs, made, inst, last, flight, guard, heap>>

InitConfig ==
    /\ authored \in FlightTables
    /\ apiDefs = authored
    /\ made = FALSE
    /\ inst = [i \in Instances |-> NoInstance]
    /\ last = Idle
    /\ flight = <<>>
    /\ guard = NoGuard
    /\ heap = NoHeap
    /\ \E cfg \in BuildConfigs : build = [act |-> "made", cfg |-> cfg]

NextConfig == \E env \in NodeEnvs, path \in BuildPaths : GetConfig(env, path)

SpecConfig == InitConfig /\ [][NextConfig]_vars

\* the setting a section holds at a path of keys, NullSetting when a
\* component of the path is missing
RECURSIVE settingAt(_, _)
settingAt(section, keys) ==
    IF keys = <<>> THEN section
    ELSE IF ~hasOwnProperty(section, Head(keys)) THEN NullSetting
    ELSE settingAt(section.o[Head(keys)], Tail(keys))

\* a section sets every component of the path
RECURSIVE setsPath(_, _)
setsPath(section, keys) ==
    \/ keys = <<>>
    \/ /\ hasOwnProperty(section, Head(keys))
       /\ setsPath(section.o[Head(keys)], Tail(keys))

\* C30: get(key) returns the value of the active section (build when
\* NODE_ENV is 'production', dev otherwise) when the key is set there, even
\* to a falsy value; otherwise the value of the common section; and null
\* when neither section sets the key, also for a dotted path whose last
\* component is missing.
C30_SectionPriority ==
    build.act = "get" =>
        LET keys == splitDots(build.path, <<>>)
            active == IF build.env = "production" THEN build.cfg.build
                      ELSE build.cfg.dev
        IN  build.value =
               IF setsPath(active, keys) THEN settingAt(active, keys)
               ELSE IF setsPath(build.cfg.common, keys)
                    THEN settingAt(build.cfg.common, keys)
               ELSE NullSetting

\* C30 for a path of one key
C30_SingleKeys ==
    (build.act = "get" /\ Len(splitDots(build.path, <<>>)) = 1) =>
        LET key == build.path
            active == IF build.env = "production" THEN build.cfg.build
                      ELSE build.cfg.dev
        IN  build.value =
               IF hasOwnProperty(active, key) THEN active.o[key]
               ELSE IF hasOwnProperty(build.cfg.common, key)
                    THEN build.cfg.common.o[key]
               ELSE NullSetting

(***************************************************************************)
(* The page entries of webpack.config.js: getPageEntries and the HTML page *)
(* of each main or index entry.  Paths are sequences of characters.        *)
(***************************************************************************)
\* s.split(sep)
RECURSIVE splitOn(_, _, _)
splitOn(str, sep, word) ==
    IF str = <<>> THEN <<word>>
    ELSE IF Head(str) = sep THEN <<word>> \o splitOn(Tail(str), sep, <<>>)
    ELSE splitOn(Tail(str), sep, Append(word, Head(str)))

\* parts.join('/')
RECURSIVE joinSlash(_)
joinSlash(parts) ==
    IF parts = <<>> THEN <<>>
    ELSE IF Len(parts) = 1 THEN parts[1]
    ELSE parts[1] \o <<"/">> \o joinSlash(Tail(parts))

\* the last portion of a path
lastPortion(entry) == LET parts == splitOn(entry, "/", <<>>) IN parts[Len(parts)]

\* the position of the last `.` of a name, 0 when it has none
lastDot(name) ==
    LET dots == {i \in 1..Len(name) : name[i] = "."}
    IN  IF dots = {} THEN 0 ELSE CHOOSE i \in dots : \A j \in dots : j <= i

\* path.extname(entry)
extname(entry) ==
    LET name == lastPortion(entry)
        i == lastDot(name)
    IN  IF i <= 1 THEN <<>> ELSE SubSeq(name, i, Len(name))

\* path.basename(entry, ext)
basename(entry, ext) ==
    LET name == lastPortion(entry)
        n == Len(name) - Len(ext)
    IN  IF ext # <<>> /\ n > 0 /\ SubSeq(name, n + 1, Len(name)) = ext
        THEN SubSeq(name, 1, n)
        ELSE name

PagesWord == <<"p", "a", "g", "e", "s">>

\* paths.indexOf('pages') + 1, counting from 0 as the code does
pageIndexOf(paths) ==
    LET hits == {i \in 1..Len(paths) : paths[i] = PagesWord}
    IN  IF hits = {} THEN 0 ELSE CHOOSE i \in hits : \A j \in hits : i <= j

\* the test of lines 162-170: the entry is not skipped
keepsEntry(entry, targetPage) ==
    LET basenam == basename(entry, extname(entry))
        paths == splitOn(entry, "/", <<>>)
        pageIndex == pageIndexOf(paths)
    IN  \/ targetPage = <<>>
        \/ IF Len(paths) = pageIndex + 1
           THEN basenam = targetPage
           ELSE paths[pageIndex + 1] = targetPage

\* the key of an entry: paths.slice(pageIndex, -1).concat([basename]).join('/')
pathnameOf(entry) ==
    LET paths == splitOn(entry, "/", <<>>)
    IN  joinSlash(Append(SubSeq(paths, pageIndexOf(paths) + 1, Len(paths) - 1),
                         basename(entry, extname(entry))))

\* the forEach of getPageEntries over the files glob.sync returned
RECURSIVE entriesFrom(_, _, _)
entriesFrom(found, targetPage, entries) ==
    IF found = <<>> THEN entries
    ELSE entriesFrom(Tail(found), targetPage,
                     IF keepsEntry(Head(found), targetPage)
                     THEN [k \in DOMAIN entries \cup {pathnameOf(Head(found))} |->
                             IF k = pathnameOf(Head(found)) THEN Head(found)
                             ELSE entries[k]]
                     ELSE entries)

\* resolveFrontend('src/pages') of a project at /w
PagesDir == <<"/", "w", "/", "f", "r", "o", "n", "t", "e", "n", "d", "/", "s", "r", "c", "/", "p", "a", "g", "e", "s">>

\* the files a project may hold under its pages directory, in the order
\* glob.sync returns them
PageFiles ==
    <<PagesDir \o <<"/", "a", "d", "m", "/", "d", "e", "v", "/", "x", ".", "j", "s">>,
      PagesDir \o <<"/", "a", "d", "m", "/", "i", "n", "d", "e", "x", ".", "j", "s">>,
      PagesDir \o <<"/", "d", "e", "v", ".", "j", "s">>,
      PagesDir \o <<"/", "d", "e", "v", "/", "i", "n", "d", "e", "x", ".", "j", "s">>,
      PagesDir \o <<"/", "d", "e", "v", "/", "l", "i", "b", "/", "u", "t", "i", "l", ".", "j", "s">>,
      PagesDir \o <<"/", "d", "e", "v", "/", "m", "a", "i", "n", ".", "h", "t", "m", "l">>,
      PagesDir \o <<"/", "d", "e", "v", "/", "m", "a", "i", "n", ".", "j", "s">>,
      PagesDir \o <<"/", "d", "e", "v", "/", "m", "a", "i", "n", ".", "t", "s">>,
      PagesDir \o <<"/", "i", "n", "d", "e", "x", ".", "j", "s">>,
      PagesDir \o <<"/", "i", "n", "d", "e", "x", "/", "m", "a", "i", "n", ".", "j", "s">>>>

RootTemplate == PagesDir \o <<"/", "i", "n", "d", "e", "x", ".", "h", "t", "m", "l">>

endsWith(str, suffix) ==
    Len(str) >= Len(suffix)
        /\ SubSeq(str, Len(str) - Len(suffix) + 1, Len(str)) = suffix

\* glob.sync of src/pages/**/*.[jt]s over the files of the project
RECURSIVE globEntries(_, _)
globEntries(files, k) ==
    IF k > Len(PageFiles) THEN <<>>
    ELSE (IF PageFiles[k] \in files
             /\ extname(PageFiles[k]) \in {<<".", "j", "s">>, <<".", "t", "s">>}
          THEN <<PageFiles[k]>> ELSE <<>>) \o globEntries(files, k + 1)

\* glob.sync of src/pages/**/@(index|main).[jt]s
RECURSIVE globMains(_)
globMains(found) ==
    IF found = <<>> THEN <<>>
    ELSE (IF basename(Head(found), extname(Head(found)))
                \in {<<"i", "n", "d", "e", "x">>, <<"m", "a", "i", "n">>}
          THEN <<Head(found)>> ELSE <<>>) \o globMains(Tail(found))

\* getPageEntries(globPath) with process.env.PAGE = targetPage
getPageEntries(found, targetPage) == entriesFrom(found, targetPage, EmptyMap)

\* the output file name of the HTML page of an entry (lines 357-362)
htmlFilename(pn) ==
    IF pn = <<"m", "a", "i", "n">> THEN <<"i", "n", "d", "e", "x", ".", "h", "t", "m", "l">>
    ELSE IF endsWith(pn, <<"/", "m", "a", "i", "n">>)
         THEN SubSeq(pn, 1, Len(pn) - 5) \o <<"/", "i", "n", "d", "e", "x", ".", "h", "t", "m", "l">>
    ELSE pn \o <<".", "h", "t", "m", "l">>

\* the template of the HTML page of an entry (lines 363-370)
htmlTemplate(pn, files) ==
    LET htmlPath == PagesDir \o <<"/">> \o pn \o <<".", "h", "t", "m", "l">>
    IN  IF htmlPath \in files THEN htmlPath ELSE RootTemplate

PageNames == {<<>>, <<"i", "n", "d", "e", "x">>, <<"d", "e", "v">>, <<"a", "d", "m">>, <<"n", "o", "n", "e">>}

\* module.exports with --env.page: exports.entry = getPageEntries(...) of
\* line 213, then the loop of lines 355-382, one HtmlWebpackPlugin per main
\* or index entry
Exports(targetPage) ==
    /\ build.act = "files"
    /\ LET found == globEntries(build.files, 1)
           mains == getPageEntries(globMains(found), targetPage)
       IN  build' = [act |-> "exports", files |-> build.files,
                     page |-> targetPage,
                     entries |-> getPageEntries(found, targetPage),
                     html |-> [pn \in DOMAIN mains |->
                                 [filename |-> htmlFilename(pn),
                                  template |-> htmlTemplate(pn, build.files),
                                  chunk |-> pn]]]
    /\ UNCHANGED <<authored, apiDefs, made, inst, last, flight, guard, heap>>

InitPages ==
    /\ authored \in FlightTables
    /\ apiDefs = authored
    /\ made = FALSE
    /\ inst = [i \in Instances |-> NoInstance]
    /\ last = Idle
    /\ flight = <<>>
    /\ guard = NoGuard
    /\ heap = NoHeap
    /\ \E files \in SUBSET {PageFiles[k] : k \in 1..Len(PageFiles)} :
          build = [act |-> "files", files |-> files \cup {RootTemplate},
                   page |-> <<>>, entries |-> EmptyMap, html |-> EmptyMap]

NextPages == \E targetPage \in PageNames : Exports(targetPage)

SpecPages == InitPages /\ [][NextPages]_vars

\* the entry files of the project: its .js and .ts files under pages/
entryFiles ==
    {f \in build.files :
        endsWith(f, <<".", "j", "s">>) \/ endsWith(f, <<".", "t", "s">>)}

\* the components of a file's path below the pages directory
belowPages(f) == splitOn(SubSeq(f, Len(PagesDir) + 2, Len(f)), "/", <<>>)

\* a file name without its .js or .ts
stem(name) == SubSeq(name, 1, Len(name) - 3)

\* the entry file belongs to the page: it lies directly under pages/ and is
\* named as the page, or it lies under the directory pages/<page>/
ofPage(f, page) ==
    LET below == belowPages(f)
    IN  IF Len(below) = 1 THEN stem(below[1]) = page ELSE below[1] = page

\* the name of the entry of a file: its path below pages/ without extension
entryName(f) == stem(SubSeq(f, Len(PagesDir) + 2, Len(f)))

\* the entry files the build is to hold: those of the page when PAGE is set,
\* all of them otherwise
selectedEntries ==
    {f \in entryFiles : build.page = <<>> \/ ofPage(f, build.page)}

\* what the entries do hold: an entry for the name of every selected file,
\* each holding a selected file of that name, and the file itself when no
\* other selected file has its name (of main.js and main.ts of one
\* directory the entry holds the one glob lists last)
entriesByName ==
    build.act = "exports" =>
        /\ DOMAIN build.entries = {entryName(f) : f \in selectedEntries}
        /\ \A n \in DOMAIN build.entries :
              /\ build.entries[n] \in selectedEntries
              /\ entryName(build.entries[n]) = n
        /\ \A f \in selectedEntries :
              (\A g \in selectedEntries : entryName(g) = entryName(f) => g = f)
                  => build.entries[entryName(f)] = f

\* C22: with PAGE set, the webpack entries contain exactly the entry files
\* of that page: a file directly under pages/ whose base name is PAGE and
\* every entry file under the directory pages/PAGE/, and no entry file of
\* another page; without PAGE every entry file under pages/ is included.
C22_PageEntries ==
    build.act = "exports" =>
        {build.entries[n] : n \in DOMAIN build.entries} = selectedEntries

\* the directory of an entry name, <<>> for an entry directly under pages/
dirOfEntry(pn) ==
    LET parts == splitOn(pn, "/", <<>>)
    IN  joinSlash(SubSeq(parts, 1, Len(parts) - 1))

\* the entry is a main or index entry
isMainOrIndex(pn) ==
    LET parts == splitOn(pn, "/", <<>>)
    IN  parts[Len(parts)] \in {<<"m", "a", "i", "n">>, <<"i", "n", "d", "e", "x">>}

\* C23: the HTML page of each entry uses the template pages/<entry>.html
\* when that file exists and the root pages/index.html otherwise; a main or
\* index entry is written to index.html of its own directory; and two
\* distinct entries are never written to the same output file.
C23_HtmlPages ==
    build.act = "exports" =>
        /\ \A pn \in DOMAIN build.html :
              /\ build.html[pn].template =
                    IF PagesDir \o <<"/">> \o pn \o <<".", "h", "t", "m", "l">> \in build.files
                    THEN PagesDir \o <<"/">> \o pn \o <<".", "h", "t", "m", "l">>
                    ELSE RootTemplate
              /\ isMainOrIndex(pn) =>
                    build.html[pn].filename =
                       IF dirOfEntry(pn) = <<>> THEN <<"i", "n", "d", "e", "x", ".", "h", "t", "m", "l">>
                       ELSE dirOfEntry(pn) \o <<"/", "i", "n", "d", "e", "x", ".", "h", "t", "m", "l">>
        /\ \A pn \in DOMAIN build.html, pm \in DOMAIN build.html :
              pn # pm => build.html[pn].filename # build.html[pm].filename

\* C23 without its last part: templates and output file names
C23_TemplatesAndNames ==
    build.act = "exports" =>
        \A pn \in DOMAIN build.html :
            /\ build.html[pn].template =
                  IF PagesDir \o <<"/">> \o pn \o <<".", "h", "t", "m", "l">> \in build.files
                  THEN PagesDir \o <<"/">> \o pn \o <<".", "h", "t", "m", "l">>
                  ELSE RootTemplate
            /\ isMainOrIndex(pn)
            /\ build.html[pn].filename =
                  IF dirOfEntry(pn) = <<>> THEN <<"i", "n", "d", "e", "x", ".", "h", "t", "m", "l">>
                  ELSE dirOfEntry(pn) \o <<"/", "i", "n", "d", "e", "x", ".", "h", "t", "m", "l">>

\* the configuration of the source is one of the configurations checked,
\* and get('devtool') reads the section of the environment from it
C30_SourceSections ==
    /\ SourceBuildConfig \in BuildConfigs
    /\ (build.act = "get" /\ build.cfg = SourceBuildConfig /\ build.path = kDevtool) =>
          build.value = IF build.env = "production" THEN StrSetting("#source-map")
                        ELSE StrSetting("#cheap-module-eval-source-map")

====
